---- MODULE Spec2Model ----
(***************************************************************************)
(* Model of the weight-compression core of gemma.cpp:                      *)
(*   ops/matvec-inl.h            MatVecT / TwoMatVecT and their tiling      *)
(*   compression/compress-inl.h  the F32 and BF16 codecs, the Compress     *)
(*                               driver and DecompressAndCall              *)
(* Each part has its own specification over the shared variables:          *)
(*   Spec          one call of MatVecT or TwoMatVecT on a thread pool      *)
(*   SpecStrips    the row strips of MatVecT for kOuter up to thousands    *)
(*   SpecPool      MatVecT with the strips assigned to worker threads and  *)
(*                 any previous contents of out                            *)
(*   SpecCodec     one call of a codec entry point (Compress, Compress2,   *)
(*                 Decompress2, DecompressAndZeroPad) on small buffers     *)
(*   SpecCompress  one call of Compress on inputs of several batches       *)
(*   SpecCall      one call of DecompressAndCall (either overload)         *)
(*   SpecRoundTrip Compress followed by DecompressAndZeroPad               *)
(*   compression/nuq_test.cc     the NUQ routines as its tests call them   *)
(*   SpecNibble    TestNibble: OrderedPackU16 / OrderedUnpackU16           *)
(*   SpecCluster   TestFlat, TestPlateaus: NuqClustering::ClusterExactL2   *)
(*   SpecOffset    TestOffset: NuqCodec::Enc / DecompressAndZeroPad        *)
(* A float is its bit pattern read as a sign-magnitude integer (sign of    *)
(* the integer = sign bit, absolute value = the other 31 bits), a BF16     *)
(* likewise with 15 bits; +0.0 is 0.                                       *)
(***************************************************************************)
EXTENDS Integers, Sequences, FiniteSets, TLC

\* ------------------------------------------------------------------------
\* Bounds of the model
\* ------------------------------------------------------------------------
\* largest lane count of ScalableTag<float> that is explored
MaxLanes == 4
\* largest number of rows of the matrix
MaxOuter == 11
\* largest number of strip tasks of one pool.Run
MaxStrips == 2
\* kInner ranges over t * MaxCols + d, t <= MaxTiles, d in -1 .. 1
MaxTiles == 2
\* number of input data sets
MaxSeed == 1
\* num of a single codec call is at most MaxVecs * 2 * kLanes + 1
MaxVecs == 2
\* largest number of pool workers
MaxWorkers == 2
\* Compress on large inputs: num is around k * kBatch, k <= MaxBatches
MaxBatches == 2
MaxIters == 2

\* ------------------------------------------------------------------------
\* Program constants
\* ------------------------------------------------------------------------
MaxCols == 2048
\* "Aim for 128 work items"
kTargetStrips == 128
\* thread id of the thread that calls MatVecT (not a pool task)
CallerThread == -1
\* value of an element of out that was never written
Garbage == 7777
kBatch == 8192
\* NuqStream::kGroupSize
kGroupSize == 256
\* what a load outside the buffer returns in the model
Poison == 123456789

VARIABLES
  \* ---- MatVecT / TwoMatVecT ----
  call,      \* "MatVec" or "TwoMatVec"
  matSel,    \* MatVec: which of the two matrices (and bias vectors) is passed
  kOuter,    \* template parameter: rows
  kInner,    \* template parameter: columns (= mat_stride)
  kAdd,      \* template parameter: add the bias
  kLanes,    \* ScalableTag<float>().MaxLanes() of the build
  mat_ofs,   \* offset of the matrix in its packed stream
  seed,      \* selects the contents of mat0, mat1, vec, add0, add1
  pc,        \* position of the calling thread
  strip,     \* strip |-> progress of its pool task: [n, c0]
  rem,       \* progress of the caller's remainder pass: [n, c0]
  out,       \* out[0]: out (MatVecT) or out0 (TwoMatVecT); out[1]: out1
  writer     \* history: writer[j][r] = threads/tasks that stored to out_j[r]

VARIABLES
  \* ---- codec entry points ----
  op,         \* entry point that is called
  pType,      \* Packed: "F32" or "BF16"
  dType,      \* lane type of the tag d: "f32" or "bf16"
  packed,     \* the packed buffer of the span; its length is the capacity
  packed_ofs, \* packed_ofs (w_ofs of DecompressAndCall)
  num,        \* num
  status,     \* "ready", "run" (pool.Run of Compress), "done", "aborted"
  raw,        \* the float array raw: input of Compress and Compress2, output
              \* buffer of DecompressAndZeroPad
  vecs,       \* <<raw0, raw1>> returned by Decompress2
  stored,     \* history: indices of raw that were stored to
  loaded,     \* history: indices of the input array that were loaded from:
              \* of packed for the decoders, of the argument raw (raw +
              \* my_pos) of Traits::Compress for Compress
  pwriter,    \* history: pwriter[w] = indices of packed that task w stored to
  batch,      \* Compress: idx_batch |-> [st, thread] of its pool task
  tls,        \* Compress: work.tls.size()
  num_workers, \* pool.NumWorkers()
  dec         \* round trip: the float array that the DecompressAndZeroPad
              \* after Compress decodes to

VARIABLES
  \* ---- DecompressAndCall (two inputs) ----
  vType,      \* VecT: "F32" or "BF16"
  vec,        \* the array vec_aligned, of num elements
  frame,      \* locals of the call: pc, i, sum0..3, padded_w, padded_v, ...
  kcalls,     \* history: the calls of kernel.Update4 / Update1, operands
  decodeLog,  \* history: the Decompress2 / DecompressAndZeroPad calls
  result      \* value returned (kernel.Reduce)

VARIABLES
  \* ---- NUQ: nibble codec, group clusterer, NUQ stream ----
  nib,        \* OrderedPackU16 / OrderedUnpackU16: [pc, v, bytes, out]
  clu,        \* ClusterExactL2: [pc, in, centers, indices, unused]
  nuq         \* NuqCodec::Enc / DecompressAndZeroPad on one stream

callVars == <<vType, vec, frame, kcalls, decodeLog, result>>
nuqVars == <<nib, clu, nuq>>
cfgVars == <<call, matSel, kOuter, kInner, kAdd, mat_ofs>>
mvVars == <<cfgVars, pc, strip, rem, out, writer>>
cdVars == <<op, pType, dType, packed, packed_ofs, num, status, raw, vecs,
            stored, loaded, pwriter, batch, tls, num_workers, dec, callVars,
            nuqVars>>

vars == <<kLanes, seed, mvVars, cdVars>>

Max(a, b) == IF a > b THEN a ELSE b
Min(a, b) == IF a < b THEN a ELSE b

RECURSIVE Pow2(_)
Pow2(n) == IF n = 0 THEN 1 ELSE 2 * Pow2(n - 1)

\* hwy::FloorLog2: index of the highest set bit of x >= 1
RECURSIVE FloorLog2(_)
FloorLog2(x) == IF x <= 1 THEN 0 ELSE 1 + FloorLog2(x \div 2)

\* lane counts of a float vector: powers of two up to MaxLanes
LaneSet == {n \in 1 .. MaxLanes : Pow2(FloorLog2(n)) = n}

\* ------------------------------------------------------------------------
\* Inputs: the (read-only) matrices, vector and bias vectors
\* ------------------------------------------------------------------------
\* element i of the decoded stream of matrix m (0: mat0, 1: mat1)
MatVal(m, i) == ((i * 5 + 3 * m + seed) % 7) - 3

\* columns at which vec is nonzero: around every tile boundary
NonZeroCols ==
  {c \in {t * MaxCols + d : t \in 0 .. MaxTiles + 2, d \in -2 .. 2} : c >= 0}

\* element c of vec_aligned (a sparse vector)
VecVal(c) == IF c \in NonZeroCols THEN ((c * 3 + seed) % 5) + 1 ELSE 0

\* element r of bias vector a (0: add0, 1: add1)
AddVal(a, r) == 100 * (r + 1) + 1000 * a + seed

RECURSIVE SumProducts(_, _, _, _)
SumProducts(S, m, w_ofs, v_ofs) ==
  IF S = {} THEN 0
  ELSE LET c == CHOOSE x \in S : TRUE
       IN  MatVal(m, w_ofs + (c - v_ofs)) * VecVal(c)
             + SumProducts(S \ {c}, m, w_ofs, v_ofs)

\* Dot(mat, w_ofs, vec_aligned + v_ofs, n): sum over i < n of
\* mat[w_ofs + i] * vec_aligned[v_ofs + i]; the zero entries of vec add nothing
Dot(m, w_ofs, v_ofs, n) ==
  SumProducts({c \in NonZeroCols : v_ofs <= c /\ c < v_ofs + n},
              m, w_ofs, v_ofs)

\* ------------------------------------------------------------------------
\* ops/matvec-inl.h
\* ------------------------------------------------------------------------
RowsPerStripLanes(outer, lanes) == lanes
\* RowsPerStrip<kOuter>() for kLanes = lanes
RowsPerStrip(outer, lanes) ==
  IF outer < kTargetStrips THEN lanes
  ELSE Max(lanes, Pow2(FloorLog2(outer \div kTargetStrips)))

kRowsPerStrip == RowsPerStrip(kOuter, kLanes)
kNumStrips == kOuter \div kRowsPerStrip

\* first row of the remainder pass
RemainderR0 == kNumStrips * kRowsPerStrip

StripR0Skewed(s) == s * (kRowsPerStrip - 1)
\* first row of strip s
StripR0(s) == s * kRowsPerStrip

TwoMatVecArgsSameAdd(i) == [mat |-> i, add |-> 0, out |-> i]
\* arguments of the i-th FullDotProductsForStrip call of TwoMatVecT's lambda
\* and of its remainder pass: (mat0, add0, out0), then (mat1, add1, out1)
TwoMatVecArgs(i) == [mat |-> i, add |-> i, out |-> i]

\* arguments of the only FullDotProductsForStrip call of MatVecT
MatVecArgs(i) == [mat |-> matSel, add |-> matSel, out |-> 0]

\* number of FullDotProductsForStrip calls per strip
NumCalls == IF call = "TwoMatVec" THEN 2 ELSE 1

CallArgs(i) == IF call = "TwoMatVec" THEN TwoMatVecArgs(i) ELSE MatVecArgs(i)

\* out after adding the partial dot products of the tile (r0, c0) of matrix m
AccumulatePartialDotProducts(o, m, r0, c0, num_rows, num_cols) ==
  [r \in DOMAIN o |->
     IF r - r0 \in 0 .. num_rows - 1
     THEN LET idx_row == r - r0
              row_ofs == mat_ofs + (r0 + idx_row) * kInner
          IN  o[r] + Dot(m, row_ofs + c0, c0, num_cols)
     ELSE o[r]]

SetFirstRelativeInit(o, m, init, r0, c0, num_rows, num_cols) ==
  [r \in DOMAIN o |->
     IF r - r0 \in 0 .. num_rows - 1
     THEN LET idx_row == r - r0
              row_ofs == mat_ofs + (r0 + idx_row) * kInner
          IN  IF kAdd
              THEN AddVal(init, idx_row) + Dot(m, row_ofs + c0, c0, num_cols)
              ELSE Dot(m, row_ofs + c0, c0, num_cols)
     ELSE o[r]]
\* out after setting rows r0 .. r0+num_rows-1 to init[idx_row + r0] (if kInit,
\* which is kAdd) + the first partial dot product
SetFirstPartialDotProducts(o, m, init, r0, c0, num_rows, num_cols) ==
  [r \in DOMAIN o |->
     IF r - r0 \in 0 .. num_rows - 1
     THEN LET idx_row == r - r0
              row_ofs == mat_ofs + (r0 + idx_row) * kInner
          IN  IF kAdd
              THEN AddVal(init, idx_row + r0)
                     + Dot(m, row_ofs + c0, c0, num_cols)
              ELSE Dot(m, row_ofs + c0, c0, num_cols)
     ELSE o[r]]

TileColsWhole(c0) == kInner - c0
\* width of the tile that FullDotProductsForStrip processes next, c0 columns
\* being done
TileCols(c0) ==
  IF c0 = 0 THEN (IF kInner < MaxCols THEN kInner ELSE MaxCols)
  ELSE IF c0 <= kInner - MaxCols THEN MaxCols
  ELSE kInner - c0

FullDotProductsAccumulate(o, m, add, r0, num_rows, c0) ==
  AccumulatePartialDotProducts(o, m, r0, c0, num_rows, TileCols(c0))
\* one tile of FullDotProductsForStrip: the first tile sets, later ones add
FullDotProductsForStrip(o, m, add, r0, num_rows, c0) ==
  IF c0 = 0
  THEN SetFirstPartialDotProducts(o, m, add, r0, 0, num_rows, TileCols(0))
  ELSE AccumulatePartialDotProducts(o, m, r0, c0, num_rows, TileCols(c0))

\* progress after the tile at t.c0: next tile, next call, or finished
Advance(t) ==
  LET c1 == t.c0 + TileCols(t.c0)
  IN  IF c1 = kInner /\ t.n < NumCalls - 1
      THEN [n |-> t.n + 1, c0 |-> 0]
      ELSE [n |-> t.n, c0 |-> c1]

Finished(t) == t.n = NumCalls - 1 /\ t.c0 = kInner

\* rows r0 .. r0+num_rows-1 get thread w as a writer
Stored(wr, r0, num_rows, w) ==
  [r \in DOMAIN wr |->
     IF r - r0 \in 0 .. num_rows - 1 THEN wr[r] \cup {w} ELSE wr[r]]

\* the state after thread w ran the tile at t.c0 of rows r0 .. r0+num_rows-1
RunTile(t, r0, num_rows, w) ==
  LET a == CallArgs(t.n)
  IN  /\ out' = [out EXCEPT ![a.out] =
                   FullDotProductsForStrip(out[a.out], a.mat, a.add, r0,
                                           num_rows, t.c0)]
      /\ writer' = [writer EXCEPT ![a.out] =
                      Stored(writer[a.out], r0, num_rows, w)]

\* the codec variables while MatVecT runs
CodecIdle ==
  /\ op = "none" /\ pType = "F32" /\ dType = "f32" /\ packed = <<>>
  /\ packed_ofs = 0 /\ num = 0 /\ status = "idle" /\ raw = <<>>
  /\ vecs = <<>> /\ stored = {} /\ loaded = {} /\ pwriter = <<>>
  /\ batch = <<>> /\ tls = 0 /\ num_workers = 0 /\ dec = <<>>

\* the DecompressAndCall variables while it is not called
CallIdle ==
  /\ vType = "F32" /\ vec = <<>> /\ frame = [pc |-> "idle"]
  /\ kcalls = <<>> /\ decodeLog = <<>> /\ result = 0

\* the NUQ variables while no NUQ routine is called
NuqIdle ==
  /\ nib = [pc |-> "idle"] /\ clu = [pc |-> "idle"] /\ nuq = [pc |-> "idle"]

\* the MatVecT variables while a codec entry point runs
MatVecIdle ==
  /\ call = "none" /\ matSel = 0 /\ kOuter = 0 /\ kInner = 0 /\ kAdd = FALSE
  /\ mat_ofs = 0 /\ pc = "idle" /\ strip = <<>> /\ rem = [n |-> 0, c0 |-> 0]
  /\ out = <<>> /\ writer = <<>>

InnerSet ==
  {k \in {t * MaxCols + d : t \in 0 .. MaxTiles, d \in -1 .. 1} : k >= 1}

Init ==
  /\ call \in {"MatVec", "TwoMatVec"}
  /\ matSel \in (IF call = "MatVec" THEN {0, 1} ELSE {0})
  /\ kLanes \in LaneSet
  /\ kOuter \in {k \in 1 .. MaxOuter :
                   k \div RowsPerStrip(k, kLanes) <= MaxStrips}
  /\ kInner \in InnerSet
  /\ kAdd \in BOOLEAN
  /\ mat_ofs \in {0, 5}
  /\ seed \in 0 .. MaxSeed
  /\ pc = "start"
  /\ strip = [s \in 0 .. (kOuter \div RowsPerStrip(kOuter, kLanes)) - 1 |->
                [n |-> 0, c0 |-> 0]]
  /\ rem = [n |-> 0, c0 |-> 0]
  /\ out = [j \in {0, 1} |-> [r \in 0 .. kOuter - 1 |-> Garbage]]
  /\ writer = [j \in {0, 1} |-> [r \in 0 .. kOuter - 1 |-> {}]]
  /\ CodecIdle
  /\ CallIdle
  /\ NuqIdle

\* pool.Run(0, kNumStrips, ...): the strip tasks become runnable
PoolRun ==
  /\ pc = "start"
  /\ pc' = "run"
  /\ UNCHANGED <<kLanes, seed, cdVars, cfgVars, strip, rem, out, writer>>

\* one tile of the lambda of strip s, run by some pool worker
StripTask(s) ==
  /\ pc = "run"
  /\ ~Finished(strip[s])
  /\ RunTile(strip[s], StripR0(s), kRowsPerStrip, s)
  /\ strip' = [strip EXCEPT ![s] = Advance(strip[s])]
  /\ UNCHANGED <<kLanes, seed, cdVars, cfgVars, pc, rem>>

AllStripsDoneNoJoin == TRUE
\* pool.Run has run every task to completion
AllStripsDone == \A s \in DOMAIN strip : Finished(strip[s])

\* pool.Run returns once every strip task has completed
PoolJoin ==
  /\ pc = "run"
  /\ AllStripsDone
  /\ pc' = "remainder"
  /\ UNCHANGED <<kLanes, seed, cdVars, cfgVars, strip, rem, out, writer>>

\* "Remaining rows": one tile of the caller's pass over rows r0 .. kOuter-1
Remainder ==
  /\ pc = "remainder"
  /\ RemainderR0 < kOuter
  /\ ~Finished(rem)
  /\ RunTile(rem, RemainderR0, kOuter - RemainderR0, CallerThread)
  /\ rem' = Advance(rem)
  /\ UNCHANGED <<kLanes, seed, cdVars, cfgVars, pc, strip>>

\* MatVecT / TwoMatVecT returns
Return ==
  /\ pc = "remainder"
  /\ \/ RemainderR0 >= kOuter
     \/ Finished(rem)
  /\ pc' = "done"
  /\ UNCHANGED <<kLanes, seed, cdVars, cfgVars, strip, rem, out, writer>>

Next ==
  \/ PoolRun
  \/ \E s \in DOMAIN strip : StripTask(s)
  \/ PoolJoin
  \/ Remainder
  \/ Return

Spec == Init /\ [][Next]_vars

\* ------------------------------------------------------------------------
\* Properties of MatVecT / TwoMatVecT (specification Spec)
\* ------------------------------------------------------------------------
RECURSIVE SumRow(_, _, _)
\* sum over the columns in S of mat_m[mat_ofs + r * kInner + c] * vec[c]
SumRow(S, m, r) ==
  IF S = {} THEN 0
  ELSE LET c == CHOOSE x \in S : TRUE
       IN  MatVal(m, mat_ofs + r * kInner + c) * VecVal(c)
             + SumRow(S \ {c}, m, r)

\* (add[r] if kAdd else 0) + sum over c in [0, kInner) of mat[r, c] * vec[c]
ExpectedRow(m, a, r) ==
  (IF kAdd THEN AddVal(a, r) ELSE 0)
    + SumRow({c \in NonZeroCols : c < kInner}, m, r)

\* C1: after MatVecT<kAdd> returns, out[r] = (add[r] if kAdd else 0) + the sum
\* over c < kInner of mat[mat_ofs + r*kInner + c] * vec[c] for every row r, the
\* bias being indexed by the absolute row in strips and in the remainder rows.
C1_MatVecResult ==
  (pc = "done" /\ call = "MatVec") =>
     \A r \in 0 .. kOuter - 1 : out[0][r] = ExpectedRow(matSel, matSel, r)

\* a MatVecAdd call with two strips, remainder rows and a partial last tile
C1_Witness ==
  /\ pc = "done" /\ call = "MatVec" /\ kAdd
  /\ kNumStrips = 2 /\ RemainderR0 < kOuter
  /\ kInner > MaxCols /\ kInner % MaxCols # 0

\* C5: each out[r] (out0[r], out1[r]) is stored to by exactly one task: the
\* strip task r div kRowsPerStrip for rows below the remainder, the caller for
\* the remainder rows; so the row ranges are disjoint and cover [0, kOuter).
C5_OneWriterPerRow ==
  \A j \in 0 .. NumCalls - 1 : \A r \in 0 .. kOuter - 1 :
     /\ writer[j][r] \subseteq
          {IF r < RemainderR0 THEN r \div kRowsPerStrip ELSE CallerThread}
     /\ pc = "done" => Cardinality(writer[j][r]) = 1

\* two strip tasks of TwoMatVecT have both stored while both still run
C5_Witness ==
  /\ call = "TwoMatVec" /\ pc = "run" /\ kNumStrips = 2
  /\ \A s \in DOMAIN strip : ~Finished(strip[s]) /\ strip[s].n = 1
  /\ RemainderR0 < kOuter

\* the strips of MatVecT in index order, then the remainder rows: each strip
\* runs FullDotProductsForStrip to its end
RECURSIVE RunStrip(_, _, _, _, _, _)
RunStrip(o, m, add, r0, num_rows, c0) ==
  IF c0 = kInner THEN o
  ELSE RunStrip(FullDotProductsForStrip(o, m, add, r0, num_rows, c0),
                m, add, r0, num_rows, c0 + TileCols(c0))

RECURSIVE RunStrips(_, _, _, _)
RunStrips(o, m, add, s) ==
  IF s = kNumStrips THEN o
  ELSE RunStrips(RunStrip(o, m, add, StripR0(s), kRowsPerStrip, 0),
                 m, add, s + 1)

\* the out that MatVecT (MatVec if ~kAdd, MatVecAdd if kAdd) leaves for
\* matrix m and bias vector add
MatVecT(m, add) ==
  LET o0 == [r \in 0 .. kOuter - 1 |-> Garbage]
      o1 == RunStrips(o0, m, add, 0)
  IN  IF RemainderR0 < kOuter
      THEN RunStrip(o1, m, add, RemainderR0, kOuter - RemainderR0, 0)
      ELSE o1

\* C7: TwoMatVec / TwoMatVecAdd leaves out0 equal to the out of MatVec /
\* MatVecAdd on (mat0, add0) and out1 equal to that on (mat1, add1): every run
\* of MatVecT on matrix m ends in MatVecT(m, m), and every run of TwoMatVecT
\* ends in out0 = MatVecT(0, 0), out1 = MatVecT(1, 1).
C7_TwoMatVecEquivalence ==
  pc = "done" =>
     IF call = "TwoMatVec"
     THEN out[0] = MatVecT(0, 0) /\ out[1] = MatVecT(1, 1)
     ELSE out[0] = MatVecT(matSel, matSel)

\* TwoMatVecAdd has returned for a shape with strips, remainder and tiles
C7_Witness ==
  /\ pc = "done" /\ call = "TwoMatVec" /\ kAdd
  /\ kNumStrips >= 1 /\ RemainderR0 < kOuter /\ kInner > MaxCols
  /\ out[0] # out[1]

\* C8: no remainder row is stored to before every strip task has completed,
\* the remainder rows are stored by the calling thread only, and the call
\* returns only after all tiles of all strips and of the remainder are done.
C8_RemainderAfterJoin ==
  /\ \A j \in 0 .. NumCalls - 1 : \A r \in RemainderR0 .. kOuter - 1 :
        writer[j][r] # {} =>
           /\ \A s \in DOMAIN strip : Finished(strip[s])
           /\ pc \in {"remainder", "done"}
           /\ writer[j][r] = {CallerThread}
  /\ pc = "done" =>
        /\ \A s \in DOMAIN strip : Finished(strip[s])
        /\ RemainderR0 < kOuter => Finished(rem)
        /\ \A j \in 0 .. NumCalls - 1 : \A r \in 0 .. kOuter - 1 :
              writer[j][r] # {}

\* the caller is in the middle of the remainder pass after two strips
C8_Witness ==
  /\ pc = "remainder" /\ kNumStrips = 2 /\ RemainderR0 < kOuter
  /\ rem.c0 > 0 /\ ~Finished(rem)
  /\ writer[0][kOuter - 1] = {CallerThread}

\* progress of a FullDotProductsForStrip pass: its tiles so far start at
\* column 0, and rows whose pass is past column 0 have been stored to
TilesSoFar(t, r0, num_rows, w) ==
  /\ t.c0 \in 0 .. kInner
  /\ (t.c0 < kInner) => (t.c0 % MaxCols = 0)
  /\ \A r \in r0 .. r0 + num_rows - 1 :
        /\ writer[CallArgs(t.n).out][r] \subseteq {w}
        /\ (t.c0 > 0) => (writer[CallArgs(t.n).out][r] = {w})

\* one tile of a pass from t to t2: at most MaxCols wide and within the
\* row, the next tile starts where it ends (or the row is complete), the
\* tile at column 0 assigns the rows, every other tile adds to them
TileStep(t, t2, r0, num_rows) ==
  LET a == CallArgs(t.n)
      cols == TileCols(t.c0)
  IN  /\ cols \in 1 .. MaxCols
      /\ t.c0 + cols <= kInner
      /\ \/ t2.n = t.n /\ t2.c0 = t.c0 + cols
         \/ t.c0 + cols = kInner /\ t2.n = t.n + 1 /\ t2.c0 = 0
      /\ \A r \in r0 .. r0 + num_rows - 1 :
            LET partial == Dot(a.mat, mat_ofs + r * kInner + t.c0, t.c0, cols)
            IN  out'[a.out][r] =
                  IF t.c0 = 0
                  THEN (IF kAdd THEN AddVal(a.add, r) ELSE 0) + partial
                  ELSE out[a.out][r] + partial

\* the passes of all strips and of the remainder rows, and their completion
\* when MatVecT returns
TilesInvariant ==
  (pc \in {"run", "remainder", "done"}) =>
    (/\ (\A s \in DOMAIN strip :
           TilesSoFar(strip[s], StripR0(s), kRowsPerStrip, s))
     /\ TilesSoFar(rem, RemainderR0, kOuter - RemainderR0, CallerThread)
     /\ ((pc = "done") =>
           (/\ (\A s \in DOMAIN strip : strip[s].c0 = kInner)
            /\ ((RemainderR0 < kOuter) => (rem.c0 = kInner)))))

\* every step of a strip or of the remainder rows is one tile
TilesStep ==
  /\ (\A s \in DOMAIN strip :
        (strip'[s] # strip[s]) =>
          TileStep(strip[s], strip'[s], StripR0(s), kRowsPerStrip))
  /\ ((rem' # rem) =>
        TileStep(rem, rem', RemainderR0, kOuter - RemainderR0))

\* C20: the column tiles of a strip (and of the remainder rows) are
\* processed in ascending order by one task, are contiguous and disjoint,
\* each at most MaxCols wide, and cover [0, kInner); only the first tile
\* assigns out[r] (with the bias if kAdd), every later tile adds to it, and no
\* row is added to before it was assigned.
C20_TilesOfStrip == []TilesInvariant /\ [][TilesStep]_vars

C20_Witness ==
  /\ pc = "done"
  /\ kInner > 2 * MaxCols /\ kInner % MaxCols # 0
  /\ kNumStrips = 2 /\ RemainderR0 < kOuter
  /\ kAdd /\ call = "TwoMatVec"

\* ------------------------------------------------------------------------
\* The row strips of MatVecT for large kOuter (specification SpecStrips)
\* ------------------------------------------------------------------------
\* kOuter ranges over 1 .. 2^MaxOuterLog2
MaxOuterLog2 == 11

\* lane counts of ScalableTag<float> up to those of the widest vectors
WideLaneSet == {Pow2(k) : k \in 0 .. MaxLanes}

InitStrips ==
  /\ call \in {"MatVec", "TwoMatVec"}
  /\ matSel = 0
  /\ kLanes \in WideLaneSet
  /\ kOuter \in 1 .. Pow2(MaxOuterLog2)
  /\ kInner = 1
  /\ kAdd = FALSE
  /\ mat_ofs = 0
  /\ seed = 0
  /\ pc = "start"
  /\ strip = <<>>
  /\ rem = [n |-> 0, c0 |-> 0]
  /\ out = <<>>
  /\ writer = <<>>
  /\ CodecIdle
  /\ CallIdle
  /\ NuqIdle

\* kRowsPerStrip, kNumStrips and pool.Run(0, kNumStrips, ...): one task per
\* whole strip
RunStripTasks ==
  /\ pc = "start"
  /\ pc' = "run"
  /\ strip' = [s \in 0 .. kNumStrips - 1 |-> [n |-> 0, c0 |-> 0]]
  /\ UNCHANGED <<kLanes, seed, cdVars, cfgVars, rem, out, writer>>

NextStrips == RunStripTasks

SpecStrips == InitStrips /\ [][NextStrips]_vars

\* number of tasks that pool.Run was given
NumTasks == Cardinality(DOMAIN strip)

\* C21: the number of pool tasks, kOuter div rowsPerStrip, is at most 255 for
\* every kOuter and is between 128 and 255 whenever kOuter >= 128 * lanes;
\* the rows left to the remainder pass are fewer than rowsPerStrip.
C21_StripCount ==
  pc = "run" =>
    /\ NumTasks = kOuter \div kRowsPerStrip
    /\ NumTasks <= 2 * kTargetStrips - 1
    /\ (kOuter >= kTargetStrips * kLanes) => (NumTasks >= kTargetStrips)
    /\ kOuter - RemainderR0 \in 0 .. kRowsPerStrip - 1
    /\ kRowsPerStrip >= kLanes

\* 255 tasks of two rows each and one remainder row
C21_Witness ==
  /\ pc = "run" /\ kLanes = 2 /\ kOuter >= kTargetStrips * kLanes
  /\ NumTasks = 2 * kTargetStrips - 1 /\ kRowsPerStrip = 2
  /\ kOuter - RemainderR0 = 1

\* ------------------------------------------------------------------------
\* MatVecT on a pool of num_workers threads, for any previous contents of out
\* (specification SpecPool)
\* ------------------------------------------------------------------------
\* element r of out before the call, for the choice k of previous contents
OutBefore(k, r) == IF k = 0 THEN Garbage ELSE 10 * r + k

InitPool ==
  /\ call \in {"MatVec", "TwoMatVec"}
  /\ matSel = 0
  /\ kLanes \in LaneSet
  /\ kOuter \in {k \in 1 .. MaxOuter :
                   k \div RowsPerStrip(k, kLanes) \in 1 .. MaxStrips}
  /\ kInner \in {MaxCols - 1, MaxCols + 1}
  /\ kAdd \in BOOLEAN
  /\ mat_ofs = 0
  /\ seed = 0
  /\ pc = "start"
  /\ strip = [s \in 0 .. (kOuter \div RowsPerStrip(kOuter, kLanes)) - 1 |->
                [n |-> 0, c0 |-> 0, started |-> FALSE, thread |-> 0]]
  /\ rem = [n |-> 0, c0 |-> 0]
  /\ \E k \in {0, 1} :
        out = [j \in {0, 1} |-> [r \in 0 .. kOuter - 1 |-> OutBefore(k, r)]]
  /\ writer = [j \in {0, 1} |-> [r \in 0 .. kOuter - 1 |-> {}]]
  /\ op = "none" /\ pType = "F32" /\ dType = "f32" /\ packed = <<>>
  /\ packed_ofs = 0 /\ num = 0 /\ status = "idle" /\ raw = <<>>
  /\ vecs = <<>> /\ stored = {} /\ loaded = {} /\ pwriter = <<>>
  /\ batch = <<>> /\ tls = 0 /\ dec = <<>>
  /\ num_workers \in 1 .. MaxWorkers
  /\ CallIdle
  /\ NuqIdle

\* the pool hands the task of strip s to the idle worker thread
StripStart(s, thread) ==
  /\ pc = "run"
  /\ ~strip[s].started
  /\ \A o \in DOMAIN strip :
        (strip[o].started /\ ~Finished(strip[o])) => strip[o].thread # thread
  /\ strip' = [strip EXCEPT ![s] = [@ EXCEPT !.started = TRUE,
                                              !.thread = thread]]
  /\ UNCHANGED <<kLanes, seed, cdVars, cfgVars, pc, rem, out, writer>>

\* one tile of the lambda of strip s on the worker that runs it
StripTile(s) ==
  /\ pc = "run"
  /\ strip[s].started
  /\ ~Finished(strip[s])
  /\ RunTile(strip[s], StripR0(s), kRowsPerStrip, s)
  /\ strip' = [strip EXCEPT ![s] = [@ EXCEPT !.n = Advance(strip[s]).n,
                                              !.c0 = Advance(strip[s]).c0]]
  /\ UNCHANGED <<kLanes, seed, cdVars, cfgVars, pc, rem>>

NextPool ==
  \/ PoolRun
  \/ \E s \in DOMAIN strip : \E t \in 0 .. num_workers - 1 : StripStart(s, t)
  \/ \E s \in DOMAIN strip : StripTile(s)
  \/ PoolJoin
  \/ Remainder
  \/ Return

SpecPool == InitPool /\ [][NextPool]_vars

\* C24: the out that MatVecT (TwoMatVecT) leaves is a function of mat, vec
\* and add alone: whatever the number of workers, the worker that runs each
\* strip, the order of the strip tasks and the previous contents of out,
\* row r of out ends as add[r] (if kAdd) + the dot product of row r with vec,
\* which is also what the strips run one after the other leave.
C24_Deterministic ==
  pc = "done" =>
    \A j \in 0 .. NumCalls - 1 :
      /\ \A r \in 0 .. kOuter - 1 :
            out[CallArgs(j).out][r] =
              ExpectedRow(CallArgs(j).mat, CallArgs(j).add, r)
      /\ out[CallArgs(j).out] = MatVecT(CallArgs(j).mat, CallArgs(j).add)

\* TwoMatVecAdd or MatVecAdd has returned after its two strips ran on
\* different workers and the caller did the remainder rows
C24_Witness ==
  /\ pc = "done" /\ kNumStrips = 2 /\ RemainderR0 < kOuter
  /\ num_workers = 2 /\ strip[0].thread # strip[1].thread
  /\ kInner > MaxCols /\ kAdd

\* ------------------------------------------------------------------------
\* compression/compress-inl.h: vectors and the F32 / BF16 codecs
\* ------------------------------------------------------------------------
\* a vector of n lanes is a function on 0 .. n-1; an array of n elements is a
\* sequence of length n whose element k + 1 is element k of the array; stores
\* to consecutive elements are a record [at, vals]: vals[k] is stored to
\* element at + k - 1
NoStores == [at |-> 0, vals |-> <<>>]

Abs(x) == IF x < 0 THEN -x ELSE x

\* float -> BF16, round to nearest even (hn::OrderedDemote2To, per lane)
BF16FromF32(x) ==
  LET hi == Abs(x) \div 65536
      lo == Abs(x) % 65536
      r  == IF lo > 32768 \/ (lo = 32768 /\ hi % 2 = 1) THEN hi + 1 ELSE hi
  IN  IF x < 0 THEN -r ELSE r

\* BF16 -> float (hn::PromoteLowerTo / PromoteUpperTo, per lane)
F32FromBF16(b) == b * 65536

\* hn::Lanes(d): a bf16 vector has twice the lanes of a float vector
Lanes(d) == IF d = "bf16" THEN 2 * kLanes ELSE kLanes

\* the array of n elements whose element i is f[i + 1]
Array(n, f) == SubSeq(f, 1, n)

\* element i of array a; a read outside the array yields Poison
At(a, i) == IF i + 1 \in DOMAIN a THEN a[i + 1] ELSE Poison

\* the indices that the stores st store to
StoredIdx(st) == st.at .. st.at + Len(st.vals) - 1

\* the stores of first followed by the stores of second, which begin within
\* or right after those of first
Then(first, second) ==
  IF Len(second.vals) = 0 THEN first
  ELSE IF Len(first.vals) = 0 THEN second
  ELSE LET skip == second.at - first.at
       IN  [at   |-> first.at,
            vals |-> SubSeq(first.vals, 1, skip) \o second.vals
                       \o SubSeq(first.vals, skip + Len(second.vals) + 1,
                                 Len(first.vals))]

LoadU(a, pos, n) == [l \in 0 .. n - 1 |-> At(a, pos + l)]
\* hn::LoadN: the first min(cnt, n) lanes are loaded, the others are zero
LoadN(a, pos, n, cnt) ==
  [l \in 0 .. n - 1 |-> IF l < cnt THEN At(a, pos + l) ELSE 0]
StoreU(pos, v, n) ==
  [at |-> pos, vals |-> Array(n, [kk \in 1 .. n |-> v[kk - 1]])]
StoreNWhole(pos, v, n, cnt) ==
  [at |-> pos, vals |-> Array(n, [kk \in 1 .. n |-> v[kk - 1]])]
\* hn::StoreN: only the first min(cnt, n) lanes are stored
StoreN(pos, v, n, cnt) ==
  [at |-> pos,
   vals |-> Array(Min(cnt, n), [kk \in 1 .. Min(cnt, n) |-> v[kk - 1]])]
\* indices of the elements that LoadU / LoadN read
LoadUIdx(pos, n) == pos .. pos + n - 1
LoadNIdxWhole(pos, n, cnt) == pos .. pos + n - 1
LoadNIdx(pos, n, cnt) == pos .. pos + Min(cnt, n) - 1

\* two float vectors of n lanes -> one bf16 vector of 2n lanes, in order
OrderedDemote2To(a, b, n) ==
  [l \in 0 .. 2 * n - 1 |->
     IF l < n THEN BF16FromF32(a[l]) ELSE BF16FromF32(b[l - n])]
\* lower / upper half of a bf16 vector of 2n lanes -> float vector of n lanes
PromoteLowerTo(v, n) == [l \in 0 .. n - 1 |-> F32FromBF16(v[l])]
PromoteUpperAsLower(v, n) == [l \in 0 .. n - 1 |-> F32FromBF16(v[l])]
PromoteUpperTo(v, n) == [l \in 0 .. n - 1 |-> F32FromBF16(v[l + n])]

\* the array a after the stores st
Write(a, st) ==
  IF Len(st.vals) = 0 THEN a
  ELSE SubSeq(a, 1, st.at) \o st.vals
         \o SubSeq(a, st.at + Len(st.vals) + 1, Len(a))

\* value of i after  for (; i <= n - step; i += step)  guarded by n >= step
LoopEnd(n, step) == IF n >= step THEN ((n - step) \div step + 1) * step ELSE 0

\* ---- CompressTraits<float> ----
FloatCompressShort(r, n, ofs) ==
  [at |-> ofs, vals |-> Array(n - 1, [kk \in 1 .. n - 1 |-> At(r, kk - 1)])]
\* Compress: CopyBytes of n floats to packed + ofs
FloatCompress(r, n, ofs) ==
  [at |-> ofs, vals |-> Array(n, [kk \in 1 .. n |-> At(r, kk - 1)])]

FloatStore2(raw0, raw1, ofs) ==
  Then(StoreU(ofs, raw0, kLanes), StoreU(ofs + kLanes, raw1, kLanes))

\* Load2 to two bf16 vectors: four float loads, two ordered demotions
FloatLoad2BF16(p, ofs) ==
  LET NF == kLanes
      f0 == LoadU(p, ofs + 0 * NF, NF)
      f1 == LoadU(p, ofs + 1 * NF, NF)
      f2 == LoadU(p, ofs + 2 * NF, NF)
      f3 == LoadU(p, ofs + 3 * NF, NF)
  IN  [raw0 |-> OrderedDemote2To(f0, f1, NF),
       raw1 |-> OrderedDemote2To(f2, f3, NF),
       ld   |-> LoadUIdx(ofs, 4 * NF)]

FloatLoad2F32Same(p, ofs) ==
  [raw0 |-> LoadU(p, ofs, kLanes),
   raw1 |-> LoadU(p, ofs, kLanes),
   ld   |-> LoadUIdx(ofs, kLanes)]
\* Load2 to two float vectors: two float loads
FloatLoad2F32(p, ofs) ==
  LET N == kLanes
  IN  [raw0 |-> LoadU(p, ofs, N),
       raw1 |-> LoadU(p, ofs + N, N),
       ld   |-> LoadUIdx(ofs, 2 * N)]

\* DecompressAndZeroPad to bf16: whole pairs of float vectors, then LoadN
FloatDecompressAndZeroPadBF16(p, ofs, n) ==
  LET NF == kLanes
      iEnd == LoopEnd(n, 2 * NF)
      remaining == n - iEnd
      remaining2 == remaining - Min(remaining, NF)
      Loop(j) == LET i == (j \div (2 * NF)) * (2 * NF)
                     f0 == LoadU(p, ofs + i, NF)
                     f1 == LoadU(p, ofs + i + NF, NF)
                 IN  OrderedDemote2To(f0, f1, NF)[j - i]
      loop == [at |-> 0, vals |->
                 Array(iEnd, [kk \in 1 .. iEnd |-> Loop(kk - 1)])]
      tail == IF remaining # 0
              THEN LET f0 == LoadN(p, ofs + iEnd, NF, remaining)
                       f1 == LoadN(p, ofs + iEnd + NF, NF, remaining2)
                   IN  StoreU(iEnd, OrderedDemote2To(f0, f1, NF), 2 * NF)
              ELSE NoStores
  IN  [st |-> Then(loop, tail),
       ld |-> LoadUIdx(ofs, iEnd)
                \cup (IF remaining # 0
                      THEN LoadNIdx(ofs + iEnd, NF, remaining)
                             \cup LoadNIdx(ofs + iEnd + NF, NF, remaining2)
                      ELSE {})]

FloatDecompressNoPad(p, ofs, n) ==
  [st |-> [at |-> 0, vals |-> Array(n, [kk \in 1 .. n |-> At(p, ofs + kk - 1)])],
   ld |-> LoadUIdx(ofs, n)]
\* DecompressAndZeroPad to f32: whole vectors, then LoadN ("adds zero padding")
FloatDecompressAndZeroPadF32(p, ofs, n) ==
  LET NF == kLanes
      iEnd == LoopEnd(n, NF)
      remaining == n - iEnd
      Loop(j) == LET i == (j \div NF) * NF
                 IN  LoadU(p, ofs + i, NF)[j - i]
      loop == [at |-> 0, vals |->
                 Array(iEnd, [kk \in 1 .. iEnd |-> Loop(kk - 1)])]
      tail == IF remaining # 0
              THEN StoreU(iEnd, LoadN(p, ofs + iEnd, NF, remaining), NF)
              ELSE NoStores
  IN  [st |-> Then(loop, tail),
       ld |-> LoadUIdx(ofs, iEnd)
                \cup (IF remaining # 0
                      THEN LoadNIdx(ofs + iEnd, NF, remaining) ELSE {})]

\* ---- CompressTraits<BF16> ----
\* Compress: whole pairs of float vectors are demoted and stored, the rest is
\* loaded with LoadN and the first `remaining` lanes are stored with StoreN
BF16Compress(r, n, ofs) ==
  LET NF == kLanes
      iEnd == LoopEnd(n, 2 * NF)
      remaining == n - iEnd
      remaining1 == remaining - Min(remaining, NF)
      Loop(j) == LET i == (j \div (2 * NF)) * (2 * NF)
                     raw0 == LoadU(r, i, NF)
                     raw1 == LoadU(r, i + NF, NF)
                 IN  OrderedDemote2To(raw0, raw1, NF)[j - i]
      loop == [at |-> ofs, vals |->
                 Array(iEnd, [kk \in 1 .. iEnd |-> Loop(kk - 1)])]
      tail == IF remaining # 0
              THEN LET raw0 == LoadN(r, iEnd, NF, remaining)
                       raw1 == LoadN(r, iEnd + NF, NF, remaining1)
                   IN  StoreN(ofs + iEnd, OrderedDemote2To(raw0, raw1, NF),
                              2 * NF, remaining)
              ELSE NoStores
  IN  Then(loop, tail)

\* the elements of its argument raw that Compress(df, raw, n, ...) loads:
\* LoadU in the loop, LoadN after it
BF16CompressLoads(n) ==
  LET NF == kLanes
      iEnd == LoopEnd(n, 2 * NF)
      remaining == n - iEnd
      remaining1 == remaining - Min(remaining, NF)
  IN  IF remaining = 0 THEN LoadUIdx(0, iEnd)
      ELSE LoadUIdx(0, iEnd)
             \cup LoadNIdx(iEnd, NF, remaining)
             \cup LoadNIdx(iEnd + NF, NF, remaining1)

BF16Store2(raw0, raw1, ofs) ==
  StoreU(ofs, OrderedDemote2To(raw0, raw1, kLanes), 2 * kLanes)

BF16Load2BF16(p, ofs) ==
  LET N16 == 2 * kLanes
  IN  [raw0 |-> LoadU(p, ofs, N16),
       raw1 |-> LoadU(p, ofs + N16, N16),
       ld   |-> LoadUIdx(ofs, 2 * N16)]

\* Load2 to two float vectors: one bf16 load, promote lower and upper half
BF16Load2F32(p, ofs) ==
  LET NF == kLanes
      packed0 == LoadU(p, ofs, 2 * NF)
  IN  [raw0 |-> PromoteLowerTo(packed0, NF),
       raw1 |-> PromoteUpperTo(packed0, NF),
       ld   |-> LoadUIdx(ofs, 2 * NF)]

BF16DecompressAndZeroPadBF16(p, ofs, n) ==
  LET N16 == 2 * kLanes
      iEnd == LoopEnd(n, N16)
      remaining == n - iEnd
      Loop(j) == LET i == (j \div N16) * N16
                 IN  LoadU(p, ofs + i, N16)[j - i]
      loop == [at |-> 0, vals |->
                 Array(iEnd, [kk \in 1 .. iEnd |-> Loop(kk - 1)])]
      tail == IF remaining # 0
              THEN StoreU(iEnd, LoadN(p, ofs + iEnd, N16, remaining), N16)
              ELSE NoStores
  IN  [st |-> Then(loop, tail),
       ld |-> LoadUIdx(ofs, iEnd)
                \cup (IF remaining # 0
                      THEN LoadNIdx(ofs + iEnd, N16, remaining) ELSE {})]

\* DecompressAndZeroPad to f32: Load2 for whole pairs of vectors; the rest is
\* loaded with LoadN, raw0 is stored, and raw1 "if (remaining >= NF)"
BF16DecompressAndZeroPadF32(p, ofs, n) ==
  LET NF == kLanes
      iEnd == LoopEnd(n, 2 * NF)
      remaining == n - iEnd
      Loop(j) == LET i == (j \div (2 * NF)) * (2 * NF)
                     v == BF16Load2F32(p, ofs + i)
                 IN  Then(StoreU(i, v.raw0, NF),
                          StoreU(i + NF, v.raw1, NF)).vals[j - i + 1]
      loop == [at |-> 0, vals |->
                 Array(iEnd, [kk \in 1 .. iEnd |-> Loop(kk - 1)])]
      tail == IF remaining # 0
              THEN LET packed0 == LoadN(p, ofs + iEnd, 2 * NF, remaining)
                       raw0 == PromoteLowerTo(packed0, NF)
                       raw1 == PromoteUpperTo(packed0, NF)
                   IN  Then(StoreU(iEnd, raw0, NF),
                            IF remaining >= NF
                            THEN StoreU(iEnd + NF, raw1, NF) ELSE NoStores)
              ELSE NoStores
  IN  [st |-> Then(loop, tail),
       ld |-> LoadUIdx(ofs, iEnd)
                \cup (IF remaining # 0
                      THEN LoadNIdx(ofs + iEnd, 2 * NF, remaining) ELSE {})]

\* ---- dispatch on Packed and on the lane type of d ----
TraitsCompress(pt, r, n, ofs) ==
  IF pt = "F32" THEN FloatCompress(r, n, ofs) ELSE BF16Compress(r, n, ofs)

TraitsStore2(pt, raw0, raw1, ofs) ==
  IF pt = "F32" THEN FloatStore2(raw0, raw1, ofs)
  ELSE BF16Store2(raw0, raw1, ofs)

TraitsLoad2(d, pt, p, ofs) ==
  IF pt = "F32"
  THEN (IF d = "bf16" THEN FloatLoad2BF16(p, ofs) ELSE FloatLoad2F32(p, ofs))
  ELSE (IF d = "bf16" THEN BF16Load2BF16(p, ofs) ELSE BF16Load2F32(p, ofs))

TraitsDecompressAndZeroPad(d, pt, p, ofs, n) ==
  IF pt = "F32"
  THEN (IF d = "bf16" THEN FloatDecompressAndZeroPadBF16(p, ofs, n)
        ELSE FloatDecompressAndZeroPadF32(p, ofs, n))
  ELSE (IF d = "bf16" THEN BF16DecompressAndZeroPadBF16(p, ofs, n)
        ELSE BF16DecompressAndZeroPadF32(p, ofs, n))

\* ---- PackedSpan ----
\* capacity of the span over the buffer p
Capacity(p) == Len(p)

\* PackedSpan::BoundsCheck(ofs, n) passes
BoundsCheck(p, ofs, n) == ofs + n <= Capacity(p)

\* ---- inputs of the codec calls ----
\* element i of a float array: distinct in the upper 16 bits for nearby i, the
\* lower 16 bits run through the rounding cases of BF16FromF32
F32Sample(sd, i) ==
  LET lo  == (<<0, 1, 32767, 32768, 32769, 65535>>)[((i * 7 + sd * 3) % 6) + 1]
      hi  == (i % 997) * 16 + ((i + sd) % 2) + 1
      mag == hi * 65536 + lo
  IN  IF (i + sd) % 5 = 4 THEN -mag ELSE mag

\* element i of a BF16 array
BF16Sample(sd, i) ==
  LET mag == (i % 997) * 16 + ((i * 7 + sd) % 16) + 1
  IN  IF (i + sd) % 5 = 3 THEN -mag ELSE mag

\* contents of a packed buffer of type pt before the call
PackedInit(pt, sd, j) ==
  IF pt = "F32" THEN F32Sample(sd, j) ELSE BF16Sample(sd, j)

\* element i of the float array raw that Compress and Compress2 read
RawSample(i) == F32Sample(seed + 1, i)

\* the array a + pos, of len elements
From(a, pos, len) == SubSeq(a, pos + 1, pos + len)

\* ---- the entry points ----
Aborted == [aborted |-> TRUE, st |-> NoStores, ld |-> {},
            raw0 |-> <<>>, raw1 |-> <<>>]

\* Compress2(df, raw0, raw1, packed, packed_ofs): the stores to packed
Compress2(pt, raw0, raw1, p, ofs) ==
  IF ~BoundsCheck(p, ofs, 2 * Lanes("f32")) THEN Aborted
  ELSE [aborted |-> FALSE, st |-> TraitsStore2(pt, raw0, raw1, ofs)]

\* Decompress2(d, packed, packed_ofs, raw0, raw1)
Decompress2(d, pt, p, ofs) ==
  IF ~BoundsCheck(p, ofs, 2 * Lanes(d)) THEN Aborted
  ELSE [aborted |-> FALSE] @@ TraitsLoad2(d, pt, p, ofs)

DecompressAndZeroPadNoCheck(d, pt, p, ofs, n) ==
  [aborted |-> FALSE] @@ TraitsDecompressAndZeroPad(d, pt, p, ofs, n)
\* DecompressAndZeroPad(d, packed, packed_ofs, raw, num): the stores to raw
DecompressAndZeroPad(d, pt, p, ofs, n) ==
  IF ~BoundsCheck(p, ofs, n) THEN Aborted
  ELSE [aborted |-> FALSE] @@ TraitsDecompressAndZeroPad(d, pt, p, ofs, n)

\* ---- the Compress driver ----
DivCeil(a, b) == (a + b - 1) \div b

num_batches == DivCeil(num, kBatch)

MyPosShort(idx_batch) == idx_batch * (kBatch - 1)
MyPos(idx_batch) == idx_batch * kBatch

MyNumWhole(idx_batch) == kBatch
MyNum(idx_batch) ==
  IF idx_batch = num_batches - 1 THEN num - MyPos(idx_batch) ELSE kBatch

\* writer w has made the stores st
PStored(pw, st, w) == [pw EXCEPT ![w] = @ \cup StoredIdx(st)]

\* arguments n of the BoundsCheck of the entry point op
CheckedNum ==
  CASE op = "Compress2" -> 2 * Lanes("f32")
    [] op = "Decompress2" -> 2 * Lanes(dType)
    [] OTHER -> num

\* length of the output buffer raw: num rounded up to whole vectors, and two
\* more vectors that no store should reach
RawLen(d, n) == DivCeil(n, Lanes(d)) * Lanes(d) + 2 * Lanes(d)

\* the array raw before the call
RawInit(i) == IF op \in {"Compress", "Compress2"} THEN RawSample(i) ELSE Garbage

RawInitLen ==
  CASE op = "Compress" -> num
    [] op = "Compress2" -> 2 * kLanes
    [] OTHER -> RawLen(dType, num)

\* the state before the call, for argument values that Init has chosen
CodecStart(cap) ==
  /\ packed = Array(cap, [kk \in 1 .. cap |-> PackedInit(pType, seed, kk - 1)])
  /\ pwriter = [w \in (0 .. DivCeil(num, kBatch) - 1) \cup {CallerThread}
                   |-> {}]
  /\ raw = Array(RawInitLen, [kk \in 1 .. RawInitLen |-> RawInit(kk - 1)])
  /\ batch = [idx \in 0 .. DivCeil(num, kBatch) - 1 |->
                [st |-> "pending", thread |-> 0, ofs |-> 0, n |-> 0]]
  /\ status = "ready"
  /\ vecs = <<>> /\ stored = {} /\ loaded = {} /\ tls = 0 /\ dec = <<>>
  /\ MatVecIdle
  /\ CallIdle
  /\ NuqIdle

InitCodec ==
  /\ op \in {"Compress", "Compress2", "Decompress2", "DecompressAndZeroPad"}
  /\ pType \in {"F32", "BF16"}
  /\ dType \in (IF op \in {"Compress", "Compress2"}
                THEN {"f32"} ELSE {"f32", "bf16"})
  /\ kLanes \in LaneSet
  /\ seed \in 0 .. MaxSeed
  /\ num_workers \in {1, MaxWorkers}
  /\ num \in (IF op \in {"Compress", "DecompressAndZeroPad"}
              THEN 0 .. MaxVecs * 2 * kLanes + 1 ELSE {0})
  /\ packed_ofs \in {0, 3}
  /\ \E slack \in {-1, 0, 2} :
        /\ packed_ofs + CheckedNum + slack >= 0
        /\ CodecStart(packed_ofs + CheckedNum + slack)

TlsSizeStale == tls
\* work.tls.resize(pool.NumWorkers()): the new size of work.tls
TlsSize == num_workers

\* Compress up to pool.Run: BoundsCheck, then work.tls.resize
CompressEnter ==
  /\ op = "Compress" /\ status = "ready"
  /\ IF ~BoundsCheck(packed, packed_ofs, num)
     THEN status' = "aborted" /\ UNCHANGED tls
     ELSE status' = "run" /\ tls' = TlsSize
  /\ UNCHANGED <<kLanes, seed, mvVars, callVars, nuqVars, dec,
                 op, pType, dType, packed, packed_ofs,
                 num, raw, vecs, stored, loaded, pwriter, batch, num_workers>>

\* the pool hands batch idx_batch to the idle worker thread
BatchStart(idx_batch, thread) ==
  /\ op = "Compress" /\ status = "run"
  /\ batch[idx_batch].st = "pending"
  /\ \A o \in DOMAIN batch :
        batch[o].st = "running" => batch[o].thread # thread
  /\ batch' = [batch EXCEPT ![idx_batch] =
                 [st |-> "running", thread |-> thread, ofs |-> 0, n |-> 0]]
  /\ UNCHANGED <<kLanes, seed, mvVars, callVars, nuqVars, dec,
                 op, pType, dType, packed, packed_ofs,
                 num, status, raw, vecs, stored, loaded, pwriter, tls,
                 num_workers>>

\* the lambda of Compress: Traits::Compress of the batch
BatchTask(idx_batch) ==
  /\ op = "Compress" /\ status = "run"
  /\ batch[idx_batch].st = "running"
  /\ LET my_pos == MyPos(idx_batch)
         my_num == MyNum(idx_batch)
         st == TraitsCompress(pType, From(raw, my_pos, num - my_pos), my_num,
                              packed_ofs + my_pos)
         ld == IF pType = "F32" THEN 0 .. my_num - 1
               ELSE BF16CompressLoads(my_num)
     IN  /\ packed' = Write(packed, st)
         /\ pwriter' = PStored(pwriter, st, idx_batch)
         /\ loaded' = loaded \cup ld
         /\ batch' = [batch EXCEPT ![idx_batch] =
                        [st |-> "done", thread |-> @.thread,
                         ofs |-> packed_ofs + my_pos, n |-> my_num]]
  /\ UNCHANGED <<kLanes, seed, mvVars, callVars, nuqVars, dec,
                 op, pType, dType, packed_ofs, num,
                 status, raw, vecs, stored, tls, num_workers>>

\* pool.Run has returned; Compress returns
CompressReturn ==
  /\ op = "Compress" /\ status = "run"
  /\ \A idx \in DOMAIN batch : batch[idx].st = "done"
  /\ status' = "done"
  /\ UNCHANGED <<kLanes, seed, mvVars, callVars, nuqVars, dec,
                 op, pType, dType, packed, packed_ofs,
                 num, raw, vecs, stored, loaded, pwriter, batch, tls,
                 num_workers>>

CallCompress2 ==
  /\ op = "Compress2" /\ status = "ready"
  /\ LET raw0 == LoadU(raw, 0, kLanes)
         raw1 == LoadU(raw, kLanes, kLanes)
         res  == Compress2(pType, raw0, raw1, packed, packed_ofs)
     IN  IF res.aborted
         THEN status' = "aborted" /\ UNCHANGED <<packed, pwriter>>
         ELSE /\ status' = "done"
              /\ packed' = Write(packed, res.st)
              /\ pwriter' = PStored(pwriter, res.st, CallerThread)
  /\ UNCHANGED <<kLanes, seed, mvVars, callVars, nuqVars, dec,
                 op, pType, dType, packed_ofs, num,
                 raw, vecs, stored, loaded, batch, tls, num_workers>>

CallDecompress2 ==
  /\ op = "Decompress2" /\ status = "ready"
  /\ LET res == Decompress2(dType, pType, packed, packed_ofs)
     IN  IF res.aborted
         THEN status' = "aborted" /\ UNCHANGED <<vecs, loaded>>
         ELSE /\ status' = "done"
              /\ vecs' = <<res.raw0, res.raw1>>
              /\ loaded' = res.ld
  /\ UNCHANGED <<kLanes, seed, mvVars, callVars, nuqVars, dec,
                 op, pType, dType, packed, packed_ofs,
                 num, raw, stored, pwriter, batch, tls, num_workers>>

CallDecompressAndZeroPad ==
  /\ op = "DecompressAndZeroPad" /\ status = "ready"
  /\ LET res == DecompressAndZeroPad(dType, pType, packed, packed_ofs, num)
     IN  IF res.aborted
         THEN status' = "aborted" /\ UNCHANGED <<raw, stored, loaded>>
         ELSE /\ status' = "done"
              /\ raw' = Write(raw, res.st)
              /\ stored' = StoredIdx(res.st)
              /\ loaded' = res.ld
  /\ UNCHANGED <<kLanes, seed, mvVars, callVars, nuqVars, dec,
                 op, pType, dType, packed, packed_ofs,
                 num, vecs, pwriter, batch, tls, num_workers>>

NextCompress ==
  \/ CompressEnter
  \/ \E idx \in DOMAIN batch : \E t \in 0 .. num_workers - 1 :
        BatchStart(idx, t)
  \/ \E idx \in DOMAIN batch : BatchTask(idx)
  \/ CompressReturn

NextCodec ==
  \/ NextCompress
  \/ CallCompress2
  \/ CallDecompress2
  \/ CallDecompressAndZeroPad

SpecCodec == InitCodec /\ [][NextCodec]_vars

\* ---- properties of the codec entry points ----
RoundUpTo(n, m) == DivCeil(n, m) * m

\* the sample that packed element v of type pt decodes to in lane type d
Decoded(d, pt, v) ==
  CASE pt = "F32"  /\ d = "f32"  -> v
    [] pt = "F32"  /\ d = "bf16" -> BF16FromF32(v)
    [] pt = "BF16" /\ d = "f32"  -> F32FromBF16(v)
    [] pt = "BF16" /\ d = "bf16" -> v

ZeroPadDone == op = "DecompressAndZeroPad" /\ status = "done"

\* C3: DecompressAndZeroPad writes exactly the elements [0, ceil(num / lanes) *
\* lanes) of the output: [0, num) hold the decoded samples, the rest of the
\* last vector is +0.0, and no element from ceil(num / lanes) * lanes on is
\* written.
C3_ZeroPadExact ==
  ZeroPadDone =>
    LET end == RoundUpTo(num, Lanes(dType))
    IN  /\ stored = 0 .. end - 1
        /\ \A i \in 0 .. num - 1 :
              At(raw, i) = Decoded(dType, pType, At(packed, packed_ofs + i))
        /\ \A i \in num .. end - 1 : At(raw, i) = 0
        /\ \A i \in end .. Len(raw) - 1 : At(raw, i) = Garbage

PackedUntouched ==
  /\ \A j \in 0 .. Capacity(packed) - 1 :
        At(packed, j) = PackedInit(pType, seed, j)
  /\ \A w \in DOMAIN pwriter : pwriter[w] = {}
  /\ loaded = {}

OutputUntouched ==
  /\ \A i \in 0 .. Len(raw) - 1 : At(raw, i) = RawInit(i)
  /\ stored = {}
  /\ vecs = <<>>

NoTaskStarted ==
  /\ \A idx \in DOMAIN batch : batch[idx].st = "pending"
  /\ tls = 0

\* C4: an entry point called with packed_ofs + n > capacity (n = num, or two
\* vectors for Compress2 and Decompress2) aborts, and has then neither read nor
\* written an element of packed or of the output, nor started a pool task.
C4_AbortBeforeAccess ==
  (status # "ready" /\ packed_ofs + CheckedNum > Capacity(packed)) =>
    /\ status = "aborted"
    /\ PackedUntouched
    /\ OutputUntouched
    /\ NoTaskStarted

C4_Witness ==
  /\ status = "aborted"
  /\ op = "DecompressAndZeroPad"
  /\ num > 0
  /\ packed_ofs + num = Capacity(packed) + 1

\* C25: Decompress2 at offset ofs returns v0 holding the samples ofs ..
\* ofs+lanes-1 in lane order and v1 holding ofs+lanes .. ofs+2*lanes-1, which
\* are the first 2*lanes outputs of DecompressAndZeroPad(ofs, num = 2*lanes);
\* both read the same packed elements.
C25_Decompress2Agrees ==
  (op = "Decompress2" /\ status = "done") =>
    LET N == Lanes(dType)
        pad == DecompressAndZeroPad(dType, pType, packed, packed_ofs, 2 * N)
    IN  /\ ~pad.aborted
        /\ pad.st.at = 0 /\ Len(pad.st.vals) = 2 * N
        /\ DOMAIN vecs[1] = 0 .. N - 1 /\ DOMAIN vecs[2] = 0 .. N - 1
        /\ \A l \in 0 .. N - 1 :
              /\ vecs[1][l] = Decoded(dType, pType, At(packed, packed_ofs + l))
              /\ vecs[2][l] =
                    Decoded(dType, pType, At(packed, packed_ofs + N + l))
              /\ vecs[1][l] = pad.st.vals[l + 1]
              /\ vecs[2][l] = pad.st.vals[N + l + 1]
        /\ loaded = pad.ld
        /\ loaded = packed_ofs .. packed_ofs + 2 * N - 1

\* Decompress2 of BF16 to two float vectors of four lanes at offset 3
C25_Witness ==
  /\ op = "Decompress2" /\ status = "done"
  /\ pType = "BF16" /\ dType = "f32" /\ kLanes = 4 /\ packed_ofs = 3
  /\ vecs[1] # vecs[2]
  /\ vecs[2][0] = F32FromBF16(At(packed, packed_ofs + 4))

\* C27: the F32 and BF16 codec loops read only their logical range:
\* DecompressAndZeroPad (all four packed / target combinations) loads only
\* packed elements with index in [packed_ofs, packed_ofs + num), Compress
\* loads only elements [0, num) of the raw and num it was called with, for
\* every num, the partial vectors at the end included; at return each has
\* loaded its whole range.
C27_ReadsInRange ==
  /\ op = "DecompressAndZeroPad" =>
        /\ loaded \subseteq packed_ofs .. packed_ofs + num - 1
        /\ status = "done" => loaded = packed_ofs .. packed_ofs + num - 1
  /\ op = "Compress" =>
        /\ loaded \subseteq 0 .. Min(num, kBatch) - 1
        /\ \A idx \in DOMAIN batch :
              (batch[idx].st = "done" /\ idx = num_batches - 1) =>
                 0 .. MyNum(idx) - 1 \subseteq loaded
        /\ status = "done" => loaded = 0 .. Min(num, kBatch) - 1

\* Compress to BF16 of one vector pair, one vector and one more element
\* has returned
C27_Witness ==
  /\ op = "Compress" /\ status = "done" /\ pType = "BF16" /\ kLanes = 4
  /\ num = 3 * kLanes + 1
  /\ Capacity(packed) > packed_ofs + num
  /\ loaded = 0 .. num - 1

\* ---- the Compress driver on arrays of several batches ----
LargestLanes == CHOOSE n \in LaneSet : \A m \in LaneSet : m <= n

InitCompress ==
  /\ op = "Compress"
  /\ pType \in {"F32", "BF16"}
  /\ dType = "f32"
  /\ kLanes = LargestLanes
  /\ seed = 0
  /\ num_workers \in {1, MaxWorkers}
  /\ num \in {kBatch + 1, MaxBatches * kBatch}
  /\ packed_ofs \in {0, 3, kGroupSize}
  /\ CodecStart(packed_ofs + num + 2)

SpecCompress == InitCompress /\ [][NextCompress]_vars

\* the samples of batch idx, and the packed elements that hold them
BatchRange(idx) == MyPos(idx) .. MyPos(idx) + MyNum(idx) - 1

PackedRange(idx) ==
  packed_ofs + MyPos(idx) .. packed_ofs + MyPos(idx) + MyNum(idx) - 1

\* C6: the batches' sample ranges are [idx * kBatch, min((idx + 1) * kBatch,
\* num)), pairwise disjoint with union [0, num); a batch task writes only the
\* packed elements of its own range, and no packed element has two writers.
C6_BatchesDisjoint ==
  op = "Compress" =>
    /\ DOMAIN batch = 0 .. DivCeil(num, 8192) - 1
    /\ \A idx \in DOMAIN batch :
          BatchRange(idx) = idx * 8192 .. Min((idx + 1) * 8192, num) - 1
    /\ \A a, b \in DOMAIN batch :
          a # b => BatchRange(a) \cap BatchRange(b) = {}
    /\ UNION {BatchRange(idx) : idx \in DOMAIN batch} = 0 .. num - 1
    /\ \A idx \in DOMAIN batch :
          pwriter[idx] \subseteq PackedRange(idx)
    /\ \A a, b \in DOMAIN pwriter : a # b => pwriter[a] \cap pwriter[b] = {}

C6_Witness ==
  /\ op = "Compress" /\ status = "done"
  /\ Cardinality(DOMAIN batch) >= 2
  /\ \A idx \in DOMAIN batch :
        pwriter[idx] = PackedRange(idx)
  /\ \E a, b \in DOMAIN batch : batch[a].thread # batch[b].thread

\* C10: with packed_ofs a multiple of kGroupSize, the offset passed to the
\* codec for every batch is a multiple of kGroupSize, and so is the length of
\* every batch but the last.  The driver computes both in the same way for
\* every packed type.
C10_BatchesGroupAligned ==
  (op = "Compress" /\ packed_ofs % kGroupSize = 0) =>
    \A idx \in DOMAIN batch :
      batch[idx].st = "done" =>
        /\ batch[idx].ofs = packed_ofs + idx * kBatch
        /\ batch[idx].ofs % kGroupSize = 0
        /\ idx # num_batches - 1 => batch[idx].n % kGroupSize = 0

C10_Witness ==
  /\ op = "Compress" /\ status = "done"
  /\ packed_ofs = kGroupSize
  /\ Cardinality(DOMAIN batch) >= 2
  /\ num % kGroupSize # 0

\* the batches whose task has started and not yet returned
RunningBatches == {idx \in DOMAIN batch : batch[idx].st = "running"}

\* C11: once a task of Compress has started, work.tls has pool.NumWorkers()
\* slots; the worker id with which a task indexes work.tls is below that size;
\* and two tasks that run at the same time use different slots (the pool
\* gives tasks that run at the same time distinct worker ids).
C11_ScratchSlots ==
  op = "Compress" =>
    /\ \A idx \in DOMAIN batch :
          batch[idx].st # "pending" =>
            /\ tls = num_workers
            /\ batch[idx].thread \in 0 .. tls - 1
    /\ \A a, b \in RunningBatches :
          a # b => batch[a].thread # batch[b].thread

C11_Witness ==
  /\ op = "Compress" /\ status = "run"
  /\ tls = MaxWorkers
  /\ Cardinality(RunningBatches) >= 2
  /\ \E idx \in RunningBatches : batch[idx].thread = tls - 1

\* the packed elements that Compress is asked to fill
CompressRange == packed_ofs .. packed_ofs + num - 1

\* C23: Compress into a sub-region is framed: every packed element with an
\* index outside [packed_ofs, packed_ofs + num) keeps the value it had before
\* the call, no task stores to it, and the buffer keeps its length; when
\* Compress has returned, every element of the range was stored to.
C23_CompressFramed ==
  op = "Compress" =>
    /\ \A j \in 0 .. Capacity(packed) - 1 :
          j \notin CompressRange => At(packed, j) = PackedInit(pType, seed, j)
    /\ \A w \in DOMAIN pwriter : pwriter[w] \subseteq CompressRange
    /\ Capacity(packed) \in {packed_ofs + num + slack : slack \in -1 .. 2}
    /\ status = "done" =>
          UNION {pwriter[w] : w \in DOMAIN pwriter} = CompressRange

\* Compress to BF16 has returned: two batches, the last one a partial vector,
\* into the middle of a buffer
C23_Witness ==
  /\ op = "Compress" /\ status = "done" /\ pType = "BF16"
  /\ packed_ofs = 3 /\ Capacity(packed) > packed_ofs + num
  /\ Cardinality(DOMAIN batch) = 2
  /\ num % kBatch # 0 /\ num % (2 * kLanes) # 0
  /\ At(packed, packed_ofs + num - 1) # PackedInit(pType, seed, packed_ofs + num - 1)
  /\ At(packed, packed_ofs + num) = PackedInit(pType, seed, packed_ofs + num)

\* ------------------------------------------------------------------------
\* Round trip: Compress, then DecompressAndZeroPad of the same num samples at
\* the same offset to a float array
\* ------------------------------------------------------------------------
\* the float x with the lower 16 bits cleared: exactly representable in BF16
Representable(x) == IF x < 0 THEN -((-x \div 65536) * 65536)
                    ELSE (x \div 65536) * 65536

\* every element of the float array a is exactly representable in BF16
AllRepresentable(a) == \A k \in 1 .. Len(a) : Abs(a[k]) % 65536 = 0

\* num of the round trips: every tail length of small inputs, and an input
\* of two batches with a partial last vector
RoundTripNums ==
  (0 .. MaxVecs * 2 * kLanes + 1)
    \cup (IF kLanes = LargestLanes /\ seed = 0
          THEN {kBatch + kLanes + 1} ELSE {})

InitRoundTrip ==
  /\ op = "Compress"
  /\ pType \in {"F32", "BF16"}
  /\ dType = "f32"
  /\ kLanes \in LaneSet
  /\ seed \in 0 .. MaxSeed
  /\ num \in RoundTripNums
  /\ num_workers = 1
  /\ packed_ofs \in {0, 3}
  /\ \E exact \in BOOLEAN :
        raw = Array(num, [kk \in 1 .. num |->
                           IF exact THEN Representable(RawSample(kk - 1))
                           ELSE RawSample(kk - 1)])
  /\ LET cap == packed_ofs + num + 2
     IN  packed = Array(cap, [kk \in 1 .. cap |->
                                PackedInit(pType, seed, kk - 1)])
  /\ pwriter = [w \in (0 .. DivCeil(num, kBatch) - 1) \cup {CallerThread}
                   |-> {}]
  /\ batch = [idx \in 0 .. DivCeil(num, kBatch) - 1 |->
                [st |-> "pending", thread |-> 0, ofs |-> 0, n |-> 0]]
  /\ dec = Array(RawLen("f32", num),
                 [kk \in 1 .. RawLen("f32", num) |-> Garbage])
  /\ status = "ready"
  /\ vecs = <<>> /\ stored = {} /\ loaded = {} /\ tls = 0
  /\ MatVecIdle
  /\ CallIdle
  /\ NuqIdle

\* DecompressAndZeroPad(df, packed, packed_ofs, dec, num) after Compress
RoundTripDecode ==
  /\ op = "Compress" /\ status = "done"
  /\ LET res == DecompressAndZeroPad("f32", pType, packed, packed_ofs, num)
     IN  IF res.aborted
         THEN status' = "aborted" /\ UNCHANGED <<dec, stored, loaded>>
         ELSE /\ status' = "decoded"
              /\ dec' = Write(dec, res.st)
              /\ stored' = StoredIdx(res.st)
              /\ loaded' = res.ld
  /\ UNCHANGED <<kLanes, seed, mvVars, callVars, nuqVars,
                 op, pType, dType, packed, packed_ofs,
                 num, raw, vecs, pwriter, batch, tls, num_workers>>

NextRoundTrip ==
  \/ NextCompress
  \/ RoundTripDecode

SpecRoundTrip == InitRoundTrip /\ [][NextRoundTrip]_vars

\* C12: for the F32 packed type, the float array decoded after Compress is
\* bit-identical to the input in its first num elements.
C12_F32RoundTripExact ==
  (pType = "F32" /\ status = "decoded") => From(dec, 0, num) = From(raw, 0, num)

C12_Witness ==
  /\ pType = "F32" /\ status = "decoded"
  /\ num > kBatch /\ num % kLanes # 0 /\ kLanes > 1
  /\ ~AllRepresentable(raw)
  /\ packed_ofs = 3

\* C13: for the BF16 packed type and an input whose elements are all exactly
\* representable in BF16, the float array decoded after Compress equals the
\* input in its first num elements.
C13_BF16RoundTripExact ==
  (pType = "BF16" /\ status = "decoded" /\ AllRepresentable(raw)) =>
    From(dec, 0, num) = From(raw, 0, num)

C13_Witness ==
  /\ pType = "BF16" /\ status = "decoded" /\ AllRepresentable(raw)
  /\ num > 2 * kLanes /\ num % (2 * kLanes) = kLanes + 1 /\ kLanes > 1

\* ------------------------------------------------------------------------
\* compression/compress-inl.h: DecompressAndCall with two inputs
\* ------------------------------------------------------------------------
\* The kernel is a template parameter.  The one modelled here is the plain
\* multiply-accumulate kernel: Update4 adds the lane products w_k * v_k to
\* sum_k, Update1 adds w0 * v0 to sum0, Reduce adds up all lanes of the four
\* sums.  It computes on KVal, an integer value that stands for the number a
\* lane holds; the lane +0.0 has the value 0.
KVal(d, x) ==
  LET m == IF d = "f32" THEN Abs(x) \div 65536 ELSE Abs(x)
  IN  IF x < 0 THEN -(m % 64) ELSE m % 64

MulAdd(d, w, v, sum) ==
  [l \in 0 .. Lanes(d) - 1 |-> sum[l] + KVal(d, w[l]) * KVal(d, v[l])]

KernelUpdate4(d, w, v, sum) ==
  [k \in 0 .. 3 |-> MulAdd(d, w[k + 1], v[k + 1], sum[k])]

KernelUpdate1(d, w0, v0, sum) ==
  [sum EXCEPT ![0] = MulAdd(d, w0, v0, sum[0])]

RECURSIVE SumLanes(_, _)
SumLanes(v, n) == IF n = 0 THEN 0 ELSE v[n - 1] + SumLanes(v, n - 1)

KernelReduce(d, sum) ==
  SumLanes(sum[0], Lanes(d)) + SumLanes(sum[1], Lanes(d))
    + SumLanes(sum[2], Lanes(d)) + SumLanes(sum[3], Lanes(d))

\* hn::Zero
Zero(n) == [l \in 0 .. n - 1 |-> 0]

PairOfsNoScale(base, k) == base + k
\* base + k * N, the offset of the vector pair k, k + 1 of an Update4 group
PairOfs(base, k) == base + k * Lanes(dType)

PaddedLoadFirst(a, padded_pos) == LoadU(a, 0, Lanes(dType))
\* hn::Load(d, padded + padded_pos)
PaddedLoad(a, padded_pos) == LoadU(a, padded_pos, Lanes(dType))

Logged(fn, stream, ofs) == [fn |-> fn, stream |-> stream, ofs |-> ofs]

\* the loop condition  num >= 4 * N  and  i <= num - 4 * N
InLoop ==
  /\ frame.pc = "loop"
  /\ num >= 4 * Lanes(dType)
  /\ frame.i <= num - 4 * Lanes(dType)

InitCall ==
  /\ op = "DecompressAndCall"
  /\ pType \in {"F32", "BF16"}
  /\ vType \in {"F32", "BF16"}
  /\ dType \in {"f32", "bf16"}
  /\ kLanes \in LaneSet
  /\ seed \in 0 .. MaxSeed
  /\ num \in 0 .. (MaxIters + 1) * 4 * Lanes(dType) - 1
  /\ packed_ofs \in {0, 3, kGroupSize}
  /\ packed = Array(packed_ofs + num, [kk \in 1 .. packed_ofs + num |->
                                          PackedInit(pType, seed, kk - 1)])
  /\ vec = Array(num, [kk \in 1 .. num |-> PackedInit(vType, seed + 2, kk - 1)])
  /\ \E uninit \in {0, Garbage}, single \in BOOLEAN :
        LET garbage == Array(4 * Lanes(dType),
                             [kk \in 1 .. 4 * Lanes(dType) |-> uninit])
        IN  /\ single => (/\ pType = vType /\ packed_ofs = 0 /\ uninit = 0
                           /\ dType = "f32")
            /\ frame =
                    [pc |-> "loop", i |-> 0, remaining |-> 0, padded_pos |-> 0,
                     single |-> single,
                     sum |-> [k \in 0 .. 3 |-> Zero(Lanes(dType))],
                     padded_w |-> garbage,
                     padded_v |-> garbage]
  /\ kcalls = <<>> /\ decodeLog = <<>> /\ result = 0
  /\ status = "call" /\ raw = <<>> /\ vecs = <<>> /\ stored = {}
  /\ loaded = {} /\ pwriter = <<>> /\ batch = <<>> /\ tls = 0
  /\ num_workers = 0 /\ dec = <<>>
  /\ NuqIdle
  /\ MatVecIdle

CallUnchanged ==
  UNCHANGED <<kLanes, seed, mvVars, op, pType, dType, packed, packed_ofs, num,
              status, raw, vecs, stored, loaded, pwriter, batch, tls,
              num_workers, dec, vType, vec, nuqVars>>

WeightArgOfPair(w, v) == w
\* the weight argument of a kernel call: the decoded weights, or, in the
\* overload with a single input, the decoded vector once more
WeightArg(w, v) == IF frame.single THEN v ELSE w

\* one iteration of the loop: four Decompress2, kernel.Update4; the
\* overload with a single input decodes vec only and passes it twice
Update4Step ==
  /\ InLoop
  /\ LET d  == dType
         i  == frame.i
         v01 == Decompress2(d, vType, vec, PairOfs(i, 0))
         v23 == Decompress2(d, vType, vec, PairOfs(i, 2))
         w01 == WeightArg(
                  Decompress2(d, pType, packed, PairOfs(packed_ofs + i, 0)),
                  v01)
         w23 == WeightArg(
                  Decompress2(d, pType, packed, PairOfs(packed_ofs + i, 2)),
                  v23)
         w == <<w01.raw0, w01.raw1, w23.raw0, w23.raw1>>
         v == <<v01.raw0, v01.raw1, v23.raw0, v23.raw1>>
     IN  /\ decodeLog' = decodeLog \o
              (IF frame.single THEN <<>>
               ELSE << Logged("Decompress2", "w", PairOfs(packed_ofs + i, 0)),
                       Logged("Decompress2", "w", PairOfs(packed_ofs + i, 2)) >>)
              \o << Logged("Decompress2", "v", PairOfs(i, 0)),
                    Logged("Decompress2", "v", PairOfs(i, 2)) >>
         /\ IF w01.aborted \/ w23.aborted \/ v01.aborted \/ v23.aborted
            THEN /\ frame' = [frame EXCEPT !.pc = "aborted"]
                 /\ UNCHANGED kcalls
            ELSE /\ kcalls' = Append(kcalls, [kind |-> "Update4", base |-> i,
                                             w |-> w, v |-> v])
                 /\ frame' = [frame EXCEPT
                                !.sum = KernelUpdate4(d, w, v, frame.sum),
                                !.i = i + 4 * Lanes(d)]
  /\ UNCHANGED result
  /\ CallUnchanged

\* after the loop, remaining != 0: the two DecompressAndZeroPad
TailDecode ==
  /\ frame.pc = "loop" /\ ~InLoop
  /\ num - frame.i # 0
  /\ LET d  == dType
         i  == frame.i
         remaining == num - i
         pv == DecompressAndZeroPad(d, vType, vec, i, remaining)
         pw == IF frame.single THEN pv
               ELSE DecompressAndZeroPad(d, pType, packed, packed_ofs + i,
                                         remaining)
     IN  /\ decodeLog' = decodeLog \o
              (IF frame.single THEN <<>>
               ELSE << Logged("DecompressAndZeroPad", "w", packed_ofs + i) >>)
              \o << Logged("DecompressAndZeroPad", "v", i) >>
         /\ IF pw.aborted \/ pv.aborted
            THEN frame' = [frame EXCEPT !.pc = "aborted"]
            ELSE frame' = [frame EXCEPT
                             !.pc = "update1",
                             !.remaining = remaining,
                             !.padded_pos = 0,
                             !.padded_w = IF frame.single THEN frame.padded_w
                                          ELSE Write(frame.padded_w, pw.st),
                             !.padded_v = Write(frame.padded_v, pv.st)]
  /\ UNCHANGED <<kcalls, result>>
  /\ CallUnchanged

InTailWhole ==
  /\ frame.pc = "update1"
  /\ frame.padded_pos + Lanes(dType) <= frame.remaining
\* the loop condition  padded_pos < remaining
InTail ==
  /\ frame.pc = "update1"
  /\ frame.padded_pos < frame.remaining

\* one iteration of the loop over the padded vectors: kernel.Update1
Update1Step ==
  /\ InTail
  /\ LET v0 == PaddedLoad(frame.padded_v, frame.padded_pos)
         w0 == WeightArg(PaddedLoad(frame.padded_w, frame.padded_pos), v0)
     IN  /\ kcalls' = Append(kcalls,
                             [kind |-> "Update1",
                              base |-> frame.i + frame.padded_pos,
                              w |-> <<w0>>, v |-> <<v0>>])
         /\ frame' = [frame EXCEPT
                        !.sum = KernelUpdate1(dType, w0, v0, frame.sum),
                        !.padded_pos = frame.padded_pos + Lanes(dType)]
  /\ UNCHANGED <<decodeLog, result>>
  /\ CallUnchanged

\* return kernel.Reduce(...)
Reduce ==
  /\ \/ frame.pc = "loop" /\ ~InLoop /\ num - frame.i = 0
     \/ frame.pc = "update1" /\ ~InTail
  /\ result' = KernelReduce(dType, frame.sum)
  /\ frame' = [frame EXCEPT !.pc = "done"]
  /\ UNCHANGED <<kcalls, decodeLog>>
  /\ CallUnchanged

NextCall ==
  \/ Update4Step
  \/ TailDecode
  \/ Update1Step
  \/ Reduce

SpecCall == InitCall /\ [][NextCall]_vars

\* ---- properties of DecompressAndCall ----
\* the weight and vector sample of index i, decoded to the lane type
WSample(i) == Decoded(dType, pType, At(packed, packed_ofs + i))
VSample(i) == Decoded(dType, vType, At(vec, i))

\* the lanes handed to the kernel: call c, vector k of the call, lane l
KernelLanes ==
  {t \in (1 .. Len(kcalls)) \X (1 .. 4) \X (0 .. Lanes(dType) - 1) :
     t[2] <= Len(kcalls[t[1]].w)}

\* the sample index that lane t holds
LaneIndex(t) == kcalls[t[1]].base + (t[2] - 1) * Lanes(dType) + t[3]

RECURSIVE SumOfProducts(_)
SumOfProducts(n) ==
  IF n = 0 THEN 0
  ELSE KVal(dType, WSample(n - 1)) * KVal(dType, VSample(n - 1))
         + SumOfProducts(n - 1)

\* C2: when DecompressAndCall has returned, every sample index below num was
\* handed to the kernel in exactly one lane of one Update4 or Update1 call, the
\* lane of w holding w[w_ofs + i] and the same lane of v holding vec[i]; every
\* lane at or beyond num is zero in both operands; and the value returned by
\* the multiply-accumulate kernel is the sum of the products.
C2_EachSampleOnce ==
  (frame.pc = "done" /\ ~frame.single) =>
    /\ \A i \in 0 .. num - 1 :
          Cardinality({t \in KernelLanes : LaneIndex(t) = i}) = 1
    /\ \A t \in KernelLanes :
          LET w == kcalls[t[1]].w[t[2]][t[3]]
              v == kcalls[t[1]].v[t[2]][t[3]]
          IN  IF LaneIndex(t) < num
              THEN w = WSample(LaneIndex(t)) /\ v = VSample(LaneIndex(t))
              ELSE w = 0 /\ v = 0
    /\ result = SumOfProducts(num)

C2_Witness ==
  /\ frame.pc = "done" /\ ~frame.single
  /\ pType = "BF16" /\ vType = "F32" /\ dType = "f32" /\ kLanes = 4
  /\ packed_ofs = 3
  /\ num = 4 * Lanes(dType) + Lanes(dType) + 1
  /\ \E c \in 1 .. Len(kcalls) : kcalls[c].kind = "Update4"
  /\ \E c \in 1 .. Len(kcalls) :
        /\ kcalls[c].kind = "Update1"
        /\ kcalls[c].base + Lanes(dType) > num
  /\ frame.padded_w[4 * Lanes(dType)] = Garbage
  /\ result # 0

\* the offsets at which the weight stream was decoded
WeightOffsets ==
  {decodeLog[e].ofs : e \in {x \in 1 .. Len(decodeLog) :
                               decodeLog[x].stream = "w"}}

CallsOf(kind) == {k \in 1 .. Len(kcalls) : kcalls[k].kind = kind}

\* the counts and the order of the kernel calls when the call returns
CallsAtReturn ==
  frame.pc = "done" =>
    (/\ Cardinality(CallsOf("Update4")) = num \div (4 * Lanes(dType))
     /\ Cardinality(CallsOf("Update1")) =
           DivCeil(num % (4 * Lanes(dType)), Lanes(dType))
     /\ Cardinality(CallsOf("Update1")) \in 0 .. 4
     /\ \A a \in CallsOf("Update1"), b \in CallsOf("Update4") : b < a
     /\ result = KernelReduce(dType, frame.sum))

\* one step of the call: nothing follows the return; Reduce makes no kernel
\* update; an Update1 leaves sum1 .. sum3 alone; no Update4 after an Update1
CallStep ==
  /\ frame.pc # "done"
  /\ (frame'.pc = "done") => (kcalls' = kcalls /\ frame'.sum = frame.sum)
  /\ (Len(kcalls') > Len(kcalls)) =>
        (/\ Len(kcalls') = Len(kcalls) + 1
         /\ result' = result
         /\ (kcalls'[Len(kcalls')].kind = "Update1") =>
               (\A k \in 1 .. 3 : frame'.sum[k] = frame.sum[k])
         /\ (kcalls'[Len(kcalls')].kind = "Update4") =>
               (CallsOf("Update1") = {}))

\* C19: one call of DecompressAndCall makes floor(num / (4 N)) Update4
\* calls, then ceil((num mod 4 N) / N) Update1 calls (0 to 4), then one
\* Reduce, whose value it returns; no Update4 follows an Update1, and an
\* Update1 changes only the first accumulator.
C19_CallSequence == []CallsAtReturn /\ [][CallStep]_vars

C19_Witness ==
  /\ frame.pc = "done"
  /\ ~frame.single
  /\ Cardinality(CallsOf("Update4")) = 2
  /\ Cardinality(CallsOf("Update1")) = 3
  /\ num % Lanes(dType) # 0
  /\ result # 0

RECURSIVE SumOfSquares(_)
SumOfSquares(n) ==
  IF n = 0 THEN 0
  ELSE KVal(dType, VSample(n - 1)) * KVal(dType, VSample(n - 1))
         + SumOfSquares(n - 1)

TailStoresW ==
  StoredIdx(DecompressAndZeroPad(dType, pType, packed, packed_ofs + frame.i,
                                 frame.remaining).st)
TailStoresV ==
  StoredIdx(DecompressAndZeroPad(dType, vType, vec, frame.i,
                                 frame.remaining).st)

\* the elements of the padded buffers that the Update1 call c loaded
Update1Loads(c) ==
  kcalls[c].base - frame.i .. kcalls[c].base - frame.i + Lanes(dType) - 1

\* C26: with a weight span of capacity >= w_ofs + num, no bounds check inside
\* DecompressAndCall aborts; the tail is shorter than four vectors, its decode
\* stores only to elements 0 .. 4*lanes-1 of padded_w and padded_v, and every
\* element that an Update1 call loads from them was stored by that decode.
C26_CallInBounds ==
  (frame.pc # "idle" /\ Capacity(packed) >= packed_ofs + num) =>
    /\ frame.pc # "aborted"
    /\ \A e \in 1 .. Len(decodeLog) :
          LET n == IF decodeLog[e].fn = "Decompress2" THEN 2 * Lanes(dType)
                   ELSE num - frame.i
              cap == IF decodeLog[e].stream = "w" THEN Capacity(packed)
                     ELSE num
          IN  decodeLog[e].ofs + n <= cap
    /\ Len(frame.padded_w) = 4 * Lanes(dType)
    /\ Len(frame.padded_v) = 4 * Lanes(dType)
    /\ (frame.pc = "loop") => (CallsOf("Update1") = {})
    /\ (frame.pc \in {"update1", "done"} /\ frame.remaining # 0) =>
          /\ frame.remaining = num - frame.i
          /\ frame.remaining < 4 * Lanes(dType)
          /\ TailStoresV \subseteq 0 .. 4 * Lanes(dType) - 1
          /\ ~frame.single =>
                TailStoresW \subseteq 0 .. 4 * Lanes(dType) - 1
          /\ \A c \in CallsOf("Update1") :
                /\ Update1Loads(c) \subseteq TailStoresV
                /\ ~frame.single => Update1Loads(c) \subseteq TailStoresW

\* a tail of four vectors less one element: the decode fills both buffers
\* to their last element and four Update1 calls load all of it
C26_Witness ==
  /\ frame.pc = "done" /\ ~frame.single
  /\ pType = "BF16" /\ vType = "F32" /\ dType = "f32" /\ kLanes = 4
  /\ packed_ofs = 3
  /\ frame.i = 4 * Lanes(dType)
  /\ frame.remaining = 4 * Lanes(dType) - 1
  /\ TailStoresW = 0 .. 4 * Lanes(dType) - 1
  /\ Cardinality(CallsOf("Update1")) = 4
  /\ frame.padded_w[4 * Lanes(dType)] = 0

\* ------------------------------------------------------------------------
\* compression/nuq-inl.h: NibbleCodec, as compression/nuq_test.cc calls it.
\* The header is not among the sources; its routines follow the design
\* document (section 4.1).
\* ------------------------------------------------------------------------
\* lanes of a vector of uint16_t: twice those of a float vector
U16Lanes == 2 * kLanes

\* OrderedPackU16(d, v0, v1, v2, v3): a vector of 2n bytes; byte i of the
\* lower half is v0[i] | (v1[i] << 4), byte i of the upper half is
\* v2[i] | (v3[i] << 4).  For lanes in [0, 15] the OR is a sum.
OrderedPackU16(v0, v1, v2, v3, n) ==
  [b \in 0 .. 2 * n - 1 |->
     IF b < n THEN (v0[b] + 16 * v1[b]) % 256
     ELSE (v2[b - n] + 16 * v3[b - n]) % 256]

\* hn::LowerHalf / hn::UpperHalf of a vector of 2n bytes
LowerHalf(bytes, n) == [i \in 0 .. n - 1 |-> bytes[i]]
UpperHalf(bytes, n) == [i \in 0 .. n - 1 |-> bytes[i + n]]

OrderedUnpackLow(k, half, n) == [i \in 0 .. n - 1 |-> half[i] % 16]
\* OrderedUnpackU16<k>(d, half): lane i is nibble k of byte i
OrderedUnpackU16(k, half, n) ==
  [i \in 0 .. n - 1 |->
     IF k = 0 THEN half[i] % 16 ELSE (half[i] \div 16) % 16]

\* lane vectors with lanes in [0, 15]: constant, ascending and wrapping
NibbleVecs(n) ==
  {[i \in 0 .. n - 1 |-> (a + b * i) % 16] : a \in {0, 7, 15}, b \in {0, 1}}

InitNibble ==
  /\ kLanes \in LaneSet
  /\ seed = 0
  /\ \E v0, v1, v2, v3 \in NibbleVecs(U16Lanes) :
        nib = [pc |-> "start", v |-> <<v0, v1, v2, v3>>,
               bytes |-> <<>>, out |-> <<>>]
  /\ clu = [pc |-> "idle"] /\ nuq = [pc |-> "idle"]
  /\ CodecIdle
  /\ CallIdle
  /\ MatVecIdle

\* nibbles = OrderedPackU16(d, v0, v1, v2, v3)
NibblePack ==
  /\ nib.pc = "start"
  /\ nib' = [nib EXCEPT
               !.pc = "packed",
               !.bytes = OrderedPackU16(nib.v[1], nib.v[2], nib.v[3],
                                        nib.v[4], U16Lanes)]
  /\ UNCHANGED <<kLanes, seed, mvVars, clu, nuq>>
  /\ UNCHANGED <<op, pType, dType, packed, packed_ofs, num, status, raw, vecs,
                 stored, loaded, pwriter, batch, tls, num_workers, dec,
                 callVars>>

\* out0 .. out3 = OrderedUnpackU16<0 / 1> of the lower and of the upper half
NibbleUnpack ==
  /\ nib.pc = "packed"
  /\ LET nibbles0 == LowerHalf(nib.bytes, U16Lanes)
         nibbles1 == UpperHalf(nib.bytes, U16Lanes)
     IN  nib' = [nib EXCEPT
                   !.pc = "done",
                   !.out = << OrderedUnpackU16(0, nibbles0, U16Lanes),
                              OrderedUnpackU16(1, nibbles0, U16Lanes),
                              OrderedUnpackU16(0, nibbles1, U16Lanes),
                              OrderedUnpackU16(1, nibbles1, U16Lanes) >>]
  /\ UNCHANGED <<kLanes, seed, mvVars, clu, nuq>>
  /\ UNCHANGED <<op, pType, dType, packed, packed_ofs, num, status, raw, vecs,
                 stored, loaded, pwriter, batch, tls, num_workers, dec,
                 callVars>>

NextNibble ==
  \/ NibblePack
  \/ NibbleUnpack

SpecNibble == InitNibble /\ [][NextNibble]_vars

\* C15: for four lane vectors with lanes in [0, 15], unpacking nibble sets 0
\* and 1 of the lower half and of the upper half of OrderedPackU16(v0 .. v3)
\* gives back v0, v1, v2, v3, lane for lane.
C15_NibbleRoundTrip ==
  nib.pc = "done" =>
    \A k \in 1 .. 4 : \A i \in 0 .. U16Lanes - 1 :
      /\ nib.v[k][i] \in 0 .. 15
      /\ nib.out[k][i] = nib.v[k][i]

C15_Witness ==
  /\ nib.pc = "done"
  /\ U16Lanes >= 8
  /\ \A j, k \in 1 .. 4 : j # k => nib.v[j] # nib.v[k]
  /\ \E i \in 0 .. U16Lanes - 1 : nib.v[2][i] = 15 /\ nib.v[1][i] = 0

\* ------------------------------------------------------------------------
\* compression/nuq-inl.h: NuqClustering::ClusterExactL2, as TestFlat and
\* TestPlateaus call it.  The header is not among the sources; the routine
\* follows the design document (section 4.2): sort, prefix sums of x and
\* x^2, dynamic program over the number of intervals, indices assigned back
\* in the original order.  Samples are integers (multiples of 1/16, as the
\* plateaus k/16 - 0.5 of TestPlateaus); sums, means and costs are exact
\* fractions, the rounding of float arithmetic is not part of the model.
\* ------------------------------------------------------------------------
kClusters == 16

RECURSIVE Gcd(_, _)
Gcd(a, b) == IF b = 0 THEN a ELSE Gcd(b, a % b)
Lcm(a, b) == (a \div Gcd(a, b)) * b

\* the fraction i + n/d, 0 <= n < d, in lowest terms
FracOf(N, D) ==
  LET r == N % D
      g == Gcd(r, D)
  IN  [i |-> N \div D, n |-> r \div g, d |-> D \div g]
FracZero == FracOf(0, 1)
FracAdd(a, b) ==
  LET l == Lcm(a.d, b.d)
      f == FracOf(a.n * (l \div a.d) + b.n * (l \div b.d), l)
  IN  [f EXCEPT !.i = a.i + b.i + f.i]
FracLess(a, b) ==
  \/ a.i < b.i
  \/ /\ a.i = b.i
     /\ LET l == Lcm(a.d, b.d)
        IN  a.n * (l \div a.d) < b.n * (l \div b.d)

\* the distinct values of a set in ascending order
RECURSIVE SortedValues(_)
SortedValues(S) ==
  IF S = {} THEN <<>>
  ELSE LET lo == CHOOSE x \in S : \A y \in S : x <= y
       IN  <<lo>> \o SortedValues(S \ {lo})

\* cumulative sums: element j + 1 is t[1] + .. + t[j]
RECURSIVE CumSum(_)
CumSum(t) ==
  IF Len(t) = 0 THEN <<0>>
  ELSE LET c == CumSum(SubSeq(t, 1, Len(t) - 1))
       IN  Append(c, c[Len(t)] + t[Len(t)])

\* sum of squared differences of an interval from its mean:
\* sum(x^2) - sum(x)^2 / len
IntervalCost(len, sum, sumsq) == FracOf(sumsq * len - sum * sum, len)

\* cost of the interval of sorted values a .. b (1-based, inclusive); cs
\* holds the cumulative counts, sums and sums of squares
CostOf(cs, a, b) ==
  IntervalCost(cs[1][b + 1] - cs[1][a], cs[2][b + 1] - cs[2][a],
               cs[3][b + 1] - cs[3][a])

FirstCut(cand, lo, hi) == lo
\* the cheapest end of the interval before the last, the first of them
BestCut(cand, lo, hi) ==
  CHOOSE t \in lo .. hi : \A u \in lo .. hi : ~FracLess(cand[u], cand[t])

\* one row of the dynamic program: entry j is the least cost of splitting
\* the sorted values 1 .. j into k intervals and the end of the interval
\* before the last; prev is the row for k - 1 intervals
ClusterRow(k, prev, cs, m) ==
  Array(m, [j \in 1 .. m |->
    IF j < k THEN [cost |-> FracZero, cut |-> 0]
    ELSE IF k = 1 THEN [cost |-> CostOf(cs, 1, j), cut |-> 0]
    ELSE LET cand == Array(j, [t \in 1 .. j |->
                       IF t < k - 1 \/ t = j THEN FracZero
                       ELSE FracAdd(prev[t].cost, CostOf(cs, t + 1, j))])
             best == BestCut(cand, k - 1, j - 1)
         IN  [cost |-> cand[best], cut |-> best]])

ClusterAppendRow(rows, cs, m) ==
  Append(rows,
         ClusterRow(Len(rows) + 1,
                    IF Len(rows) = 0 THEN <<>> ELSE rows[Len(rows)], cs, m))

\* rows 1 .. k of the dynamic program
RECURSIVE ClusterRows(_, _, _)
ClusterRows(k, cs, m) ==
  IF k = 0 THEN <<>> ELSE ClusterAppendRow(ClusterRows(k - 1, cs, m), cs, m)

\* ends of the k intervals that row k, entry j stands for
RECURSIVE ClusterEnds(_, _, _)
ClusterEnds(rows, k, j) ==
  IF k = 0 THEN <<>>
  ELSE Append(ClusterEnds(rows, k - 1, rows[k][j].cut), j)

CenterSum(sum, len) == FracOf(sum, 1)
\* the center of an interval is its mean
CenterOf(sum, len) == FracOf(sum, len)

IndexFromZero(unused, c) == c - 1
\* index of the c-th used cluster (c from 1, ascending centers)
IndexOf(unused, c) == unused + c - 1

\* unused clusters occupy the lowest indices
IsUnused(c, unused) == c < unused

\* ClusterExactL2(df, in, num, buf, centers, indices): returns the number of
\* unused clusters.  Intervals end where the sorted value changes; the
\* number of clusters is the least that attains the least cost.
ClusterExactL2(in, n) ==
  LET xs == SortedValues({in[i] : i \in 0 .. n - 1})
      m == Len(xs)
      ws == Array(m, [j \in 1 .. m |->
              Cardinality({i \in 0 .. n - 1 : in[i] = xs[j]})])
      cs == << CumSum(ws),
               CumSum(Array(m, [j \in 1 .. m |-> ws[j] * xs[j]])),
               CumSum(Array(m, [j \in 1 .. m |-> ws[j] * xs[j] * xs[j]])) >>
      K == Min(kClusters, m)
      rows == ClusterRows(K, cs, m)
      used == CHOOSE k \in 1 .. K :
                /\ \A k2 \in 1 .. K :
                      ~FracLess(rows[k2][m].cost, rows[k][m].cost)
                /\ \A k2 \in 1 .. k - 1 :
                      FracLess(rows[k][m].cost, rows[k2][m].cost)
      unused == kClusters - used
      ends == <<0>> \o ClusterEnds(rows, used, m)
      mean == Array(used, [c \in 1 .. used |->
                CenterOf(cs[2][ends[c + 1] + 1] - cs[2][ends[c] + 1],
                         cs[1][ends[c + 1] + 1] - cs[1][ends[c] + 1])])
      slot == [j \in 1 .. m |->
                CHOOSE c \in 1 .. used : ends[c] < j /\ j <= ends[c + 1]]
      rank == [v \in {xs[j] : j \in 1 .. m} |->
                slot[CHOOSE j \in 1 .. m : xs[j] = v]]
  IN  [unused |-> unused,
       centers |-> [c \in 0 .. kClusters - 1 |->
                      IF IsUnused(c, unused) THEN FracZero
                      ELSE mean[c - unused + 1]],
       indices |-> [i \in 0 .. n - 1 |-> IndexOf(unused, rank[in[i]])]]

\* number of shuffles and of ramps that the clustering tests draw
MaxShuffles == 3
MaxRamps == 2

\* std::shuffle: position i holds what position (p * i + q) % n held
Shuffled(i, n, k) == ((2 * k + 1) * i + 3 * k) % n

\* in[i] = c
FlatInput(n, c) == [i \in 0 .. n - 1 |-> c]
\* in[i] = idx_cluster / kClusters - 0.5, in units of 1 / kClusters, with
\* idx_cluster = i / (kGroupSize / d) for d plateaus; then shuffled
PlateauInput(d, k) ==
  [i \in 0 .. kGroupSize - 1 |->
     (Shuffled(i, kGroupSize, k) \div (kGroupSize \div d)) * (kClusters \div d)
       - kClusters \div 2]
\* more distinct values than clusters: a shuffled ramp of slope 3 whose
\* sample t is moved one up
RampInput(n, t, k) ==
  [i \in 0 .. n - 1 |->
     LET j == Shuffled(i, n, k)
     IN  3 * j - 24 + (IF j = t THEN 1 ELSE 0)]
\* fewer distinct values than samples, runs of unequal length
StepInput(n, t, k) ==
  [i \in 0 .. n - 1 |-> (Shuffled(i, n, k) \div (t + 2)) * 2 - 5]

ClusterInputs ==
  {[n |-> kGroupSize, in |-> FlatInput(kGroupSize, c)] : c \in -8 .. 8}
  \cup {[n |-> kClusters + 1, in |-> FlatInput(kClusters + 1, 8)]}
  \cup {[n |-> kGroupSize, in |-> PlateauInput(d, k)] :
          d \in {2, 4, 8, 16}, k \in 0 .. 3 * MaxShuffles}
  \cup {[n |-> kClusters + 1, in |-> RampInput(kClusters + 1, t, k)] :
          t \in {5 * r : r \in 0 .. MaxRamps - 1}, k \in {0, MaxShuffles}}
  \cup {[n |-> kClusters + 1, in |-> StepInput(kClusters + 1, t, k)] :
          t \in 0 .. MaxRamps, k \in {1}}

InitCluster ==
  /\ kLanes = LargestLanes
  /\ seed = 0
  /\ \E input \in ClusterInputs :
        clu = [pc |-> "start", n |-> input.n, in |-> input.in,
               centers |-> <<>>, indices |-> <<>>, unused |-> 0]
  /\ nib = [pc |-> "idle"] /\ nuq = [pc |-> "idle"]
  /\ CodecIdle
  /\ CallIdle
  /\ MatVecIdle

\* unused_clusters = NuqClustering::ClusterExactL2(df, in.get(), kGroupSize,
\*                                                buf, centers, indices)
ClusterCall ==
  /\ clu.pc = "start"
  /\ LET res == ClusterExactL2(clu.in, clu.n)
     IN  clu' = [clu EXCEPT !.pc = "done", !.centers = res.centers,
                            !.indices = res.indices, !.unused = res.unused]
  /\ UNCHANGED <<kLanes, seed, mvVars, nib, nuq>>
  /\ UNCHANGED <<op, pType, dType, packed, packed_ofs, num, status, raw, vecs,
                 stored, loaded, pwriter, batch, tls, num_workers, dec,
                 callVars>>

NextCluster == ClusterCall

SpecCluster == InitCluster /\ [][NextCluster]_vars

\* C17: the result of ClusterExactL2 has unused_clusters in [0, 15], every
\* index in [unused_clusters, 16) and every center below unused_clusters
\* equal to 0.0.
C17_ClusterResultShape ==
  clu.pc = "done" =>
    /\ clu.unused \in 0 .. kClusters - 1
    /\ \A i \in 0 .. clu.n - 1 : clu.indices[i] \in clu.unused .. kClusters - 1
    /\ \A c \in 0 .. clu.unused - 1 : clu.centers[c] = FracZero

C17_Witness ==
  /\ clu.pc = "done"
  /\ clu.unused \in 1 .. kClusters - 2
  /\ clu.n = kGroupSize
  /\ \E i, j \in 0 .. clu.n - 1 :
        clu.indices[i] = clu.unused /\ clu.indices[j] = kClusters - 1

\* C16: for 256 samples all equal to c, ClusterExactL2 returns 15 unused
\* clusters, centers[0 .. 14] = 0.0, centers[15] = c, and every index is 15.
C16_FlatOneCluster ==
  (/\ clu.pc = "done"
   /\ clu.n = kGroupSize
   /\ \A i \in 0 .. clu.n - 1 : clu.in[i] = clu.in[0]) =>
    /\ clu.unused = kClusters - 1
    /\ \A c \in 0 .. kClusters - 2 : clu.centers[c] = FracZero
    /\ clu.centers[kClusters - 1] = FracOf(clu.in[0], 1)
    /\ \A i \in 0 .. clu.n - 1 : clu.indices[i] = kClusters - 1

C16_Witness ==
  /\ clu.pc = "done"
  /\ clu.n = kGroupSize
  /\ \A i \in 0 .. clu.n - 1 : clu.in[i] = -7
  /\ clu.unused = kClusters - 1

\* squared difference of sample x from center c
SquaredError(x, c) ==
  LET d == x * c.d - (c.i * c.d + c.n)
  IN  FracOf(d * d, c.d * c.d)

\* sum of squared differences of in[lo .. hi) from the assigned centers
RECURSIVE SumSquaredError(_, _, _, _, _)
SumSquaredError(in, lo, hi, centers, indices) ==
  IF hi = lo THEN FracZero
  ELSE IF hi = lo + 1 THEN SquaredError(in[lo], centers[indices[lo]])
  ELSE LET mid == (lo + hi) \div 2
       IN  FracAdd(SumSquaredError(in, lo, mid, centers, indices),
                   SumSquaredError(in, mid, hi, centers, indices))

\* in[0 .. n) in ascending order
RECURSIVE SortedSamples(_, _)
SortedSamples(in, I) ==
  IF I = {} THEN <<>>
  ELSE LET lo == CHOOSE i \in I : \A j \in I : in[i] <= in[j]
       IN  <<in[lo]>> \o SortedSamples(in, I \ {lo})

\* the costs of all partitions of the sorted samples 1 .. j into at most k
\* contiguous intervals, each interval with its mean as center: every
\* choice of the last interval t + 1 .. j, with every partition before it
RECURSIVE PartitionCostsUpTo(_, _, _)
PartitionCostsUpTo(cs, j, k) ==
  IF j = 0 THEN {FracZero}
  ELSE IF k = 0 THEN {}
  ELSE UNION {{FracAdd(c, CostOf(cs, t + 1, j)) :
                 c \in PartitionCostsUpTo(cs, t, k - 1)} : t \in 0 .. j - 1}

PartitionCosts(in, n) ==
  LET sorted == SortedSamples(in, 0 .. n - 1)
      cs == << CumSum(Array(n, [j \in 1 .. n |-> 1])),
               CumSum(sorted),
               CumSum(Array(n, [j \in 1 .. n |-> sorted[j] * sorted[j]])) >>
  IN  PartitionCostsUpTo(cs, n, kClusters)

\* C18: the clustering attains the least sum of squared differences over
\* the partitions of the sorted samples into at most 16 contiguous
\* intervals with the interval mean as center (compared with every such
\* partition for the groups of 17 samples); an input of at most 16 distinct
\* values is reproduced without error.
C18_ClusterOptimal ==
  clu.pc = "done" =>
    LET sse == SumSquaredError(clu.in, 0, clu.n, clu.centers, clu.indices)
    IN  /\ clu.n <= kClusters + 1 =>
              LET costs == PartitionCosts(clu.in, clu.n)
              IN  /\ sse \in costs
                  /\ \A cost \in costs : ~FracLess(cost, sse)
        /\ Cardinality({clu.in[i] : i \in 0 .. clu.n - 1}) <= kClusters =>
              /\ sse = FracZero
              /\ \A i \in 0 .. clu.n - 1 :
                    clu.centers[clu.indices[i]] = FracOf(clu.in[i], 1)

C18_Witness ==
  /\ clu.pc = "done"
  /\ clu.n = kClusters + 1
  /\ Cardinality({clu.in[i] : i \in 0 .. clu.n - 1}) = kClusters + 1
  /\ clu.in[0] # -24
  /\ clu.unused = 0
  /\ SumSquaredError(clu.in, 0, clu.n, clu.centers, clu.indices) = FracOf(2, 1)

\* ------------------------------------------------------------------------
\* compression/nuq-inl.h: NuqCodec::Enc and NuqCodec::DecompressAndZeroPad,
\* as TestOffset calls them.  The header is not among the sources; the
\* stream follows the design document (sections 3 and 4.3): per group of
\* kGroupSize samples, kClusters centers stored as BF16, then
\* kGroupSize / 2 bytes of packed nibbles.  A cell of the packed array is
\* one center or one byte of nibbles.
\* ------------------------------------------------------------------------
\* number of groups of the buffer in TestOffset
MaxGroups == 4

\* cells of one group
GroupCells == kClusters + kGroupSize \div 2
\* NuqStream::PackedEnd(num), in cells
PackedEnd(n) == DivCeil(n, kGroupSize) * GroupCells
\* first cell of the group that holds sample ofs
PackedStart(ofs) == (ofs \div kGroupSize) * GroupCells

\* BF16 nearest to the fraction a / D * 2^e (a, D > 0): 8 significant
\* bits, ties to even; the value is m * 2^e
RECURSIVE RoundToBF16(_, _, _)
RoundToBF16(a, D, e) ==
  IF a >= 256 * D THEN RoundToBF16(a, 2 * D, e + 1)
  ELSE IF a < 128 * D THEN RoundToBF16(2 * a, D, e - 1)
  ELSE LET q == a \div D
           r == a % D
           m == IF 2 * r > D \/ (2 * r = D /\ q % 2 = 1) THEN q + 1 ELSE q
       IN  IF m = 256 THEN [m |-> 128, e |-> e + 1] ELSE [m |-> m, e |-> e]

\* a center as it is stored: hwy::ConvertScalarTo<BF16>(center)
CenterToBF16(c) ==
  LET N == c.i * c.d + c.n
  IN  IF N = 0 THEN [m |-> 0, e |-> 0, d |-> 1]
      ELSE LET b == RoundToBF16(Abs(N), c.d, 0)
           IN  [m |-> (IF N < 0 THEN -b.m ELSE b.m), e |-> b.e, d |-> 1]

GroupInputAtOfs(in, ofs, g) ==
  [i \in 0 .. kGroupSize - 1 |-> in[ofs + g * kGroupSize + i]]
\* the samples of group g of the input: Enc reads in[0 .. num) whatever
\* the offset into the packed array
GroupInput(in, ofs, g) ==
  [i \in 0 .. kGroupSize - 1 |-> in[g * kGroupSize + i]]

\* the cells of one group: centers, then the indices packed four vectors
\* of N lanes at a time
EncCells(res, N) ==
  [c \in 0 .. GroupCells - 1 |->
     IF c < kClusters THEN CenterToBF16(res.centers[c])
     ELSE LET b == (c - kClusters) \div (2 * N)
          IN  OrderedPackU16(
                [l \in 0 .. N - 1 |-> res.indices[b * 4 * N + l]],
                [l \in 0 .. N - 1 |-> res.indices[b * 4 * N + N + l]],
                [l \in 0 .. N - 1 |-> res.indices[b * 4 * N + 2 * N + l]],
                [l \in 0 .. N - 1 |-> res.indices[b * 4 * N + 3 * N + l]],
                N)[(c - kClusters) % (2 * N)]]

\* the only element of a set of one element
The(S) == CHOOSE x \in S : TRUE

\* NuqCodec::Enc for one group: cluster, then store centers and indices
EncGroup(in, N) ==
  The({EncCells(res, N) : res \in {ClusterExactL2(in, kGroupSize)}})

\* the packed array with the cells of consecutive groups stored from cell
\* first on
StoreGroups(pk, first, cells) ==
  Array(Len(pk), [p \in 1 .. Len(pk) |->
    IF p > first /\ p <= first + Len(cells) * GroupCells
    THEN cells[1 + (p - 1 - first) \div GroupCells][(p - 1 - first) % GroupCells]
    ELSE pk[p]])

\* NuqCodec::Enc(df, raw, num, buf, packed, packed_ofs): the packed array
\* afterwards (num and packed_ofs multiples of kGroupSize)
NuqEnc(in, n, pk, ofs, N) ==
  The({StoreGroups(pk, PackedStart(ofs), cells) :
         cells \in {Array(n \div kGroupSize,
                          [g \in 1 .. n \div kGroupSize |->
                             EncGroup(GroupInput(in, ofs, g - 1), N)])}})

\* the index of sample i of a group, read back from its nibbles
GroupIndex(pk, start, i, N) ==
  LET b == i \div (4 * N)
      v == (i % (4 * N)) \div N
      l == i % N
      bytes == [c \in 0 .. 2 * N - 1 |-> pk[start + kClusters + b * 2 * N + c + 1]]
      half == IF v < 2 THEN LowerHalf(bytes, N) ELSE UpperHalf(bytes, N)
  IN  OrderedUnpackU16(v % 2, half, N)[l]

\* NuqCodec::DecompressAndZeroPad(d, packed, packed_ofs, raw, num): the
\* decoded samples (table lookup of the centers by index)
NuqDec(pk, ofs, n, N) ==
  Array(n, [k \in 1 .. n |->
    LET start == PackedStart(ofs + k - 1)
    IN  pk[start + GroupIndex(pk, start, (k - 1) % kGroupSize, N) + 1]])

\* the input of TestOffset: groups of 2 to 16 shuffled plateaus and groups
\* of 32 values in close pairs, whose 16 centers are not BF16 values
NuqSample(i, sd) ==
  LET g == i \div kGroupSize
      j == Shuffled(i % kGroupSize, kGroupSize, g + sd)
  IN  IF (g + sd) % 2 = 1
      THEN 129 + 3 * (j \div 16) + ((j \div 8) % 2)
      ELSE (j \div Pow2(4 + (g % 4))) * (1 + (g % 3)) - 8 + g

InitOffset ==
  /\ kLanes \in LaneSet
  /\ seed \in 0 .. MaxSeed
  /\ \E mid \in 1 .. 2 : \E at \in 1 .. MaxGroups - mid :
        nuq = [pc |-> "start",
               total |-> MaxGroups * kGroupSize,
               kMidLen |-> mid * kGroupSize,
               offset |-> at * kGroupSize,
               in |-> [i \in 0 .. MaxGroups * kGroupSize - 1 |->
                         NuqSample(i, seed)],
               packed |-> Array(PackedEnd(MaxGroups * kGroupSize),
                                [p \in 1 .. PackedEnd(MaxGroups * kGroupSize)
                                   |-> Poison]),
               dec1 |-> <<>>, dec2 |-> <<>>]
  /\ nib = [pc |-> "idle"] /\ clu = [pc |-> "idle"]
  /\ CodecIdle
  /\ CallIdle
  /\ MatVecIdle

OffsetUnchanged ==
  /\ UNCHANGED <<kLanes, seed, mvVars, nib, clu>>
  /\ UNCHANGED <<op, pType, dType, packed, packed_ofs, num, status, raw, vecs,
                 stored, loaded, pwriter, batch, tls, num_workers, dec,
                 callVars>>

\* NuqCodec::Enc(df, in.get(), total, buf, nuq_span, 0)
EncodeAll ==
  /\ nuq.pc = "start"
  /\ nuq' = [nuq EXCEPT
               !.pc = "encoded",
               !.packed = NuqEnc(nuq.in, nuq.total, nuq.packed, 0, U16Lanes)]
  /\ OffsetUnchanged

\* NuqCodec::DecompressAndZeroPad(d, nuq_span, 0, dec1.get(), total)
DecodeAll ==
  /\ nuq.pc = "encoded"
  /\ nuq' = [nuq EXCEPT
               !.pc = "decoded",
               !.dec1 = NuqDec(nuq.packed, 0, nuq.total, U16Lanes)]
  /\ OffsetUnchanged

\* NuqCodec::Enc(df, in.get(), kMidLen, buf, nuq_span, offset)
EncodeMiddle ==
  /\ nuq.pc = "decoded"
  /\ nuq' = [nuq EXCEPT
               !.pc = "overwritten",
               !.packed = NuqEnc(nuq.in, nuq.kMidLen, nuq.packed, nuq.offset,
                                 U16Lanes)]
  /\ OffsetUnchanged

\* NuqCodec::DecompressAndZeroPad(d, nuq_span, offset, dec2.get(), kMidLen)
DecodeMiddle ==
  /\ nuq.pc = "overwritten"
  /\ nuq' = [nuq EXCEPT
               !.pc = "done",
               !.dec2 = NuqDec(nuq.packed, nuq.offset, nuq.kMidLen, U16Lanes)]
  /\ OffsetUnchanged

NextOffset ==
  \/ EncodeAll
  \/ DecodeAll
  \/ EncodeMiddle
  \/ DecodeMiddle

SpecOffset == InitOffset /\ [][NextOffset]_vars

\* C14: after the whole buffer was encoded and the first g groups of the
\* same input encoded again at another group-aligned offset, decoding the
\* g groups at that offset gives exactly what decoding the first g groups
\* of the first encoding gave.
C14_EncodeSubRegion ==
  nuq.pc = "done" =>
    /\ Len(nuq.dec2) = nuq.kMidLen
    /\ \A k \in 1 .. nuq.kMidLen : nuq.dec2[k] = nuq.dec1[k]

\* the overwritten groups held other values before, and the centers of
\* the first group were rounded when stored
C14_Witness ==
  /\ nuq.pc = "done"
  /\ nuq.kMidLen = 2 * kGroupSize
  /\ nuq.offset = 2 * kGroupSize
  /\ \E k \in 1 .. nuq.kMidLen : nuq.dec1[nuq.offset + k] # nuq.dec2[k]
  /\ \E k \in 1 .. nuq.kMidLen :
        nuq.in[k - 1] > 128 /\ nuq.dec2[k].e = 0 /\ nuq.dec2[k].m # nuq.in[k - 1]

====
